---------------------------- MODULE Spec2Model ----------------------------
(***************************************************************************)
(* Model of the table-preview edit session of the database manager         *)
(* extension: the grid script of the webview (addNewRow, finishEditing,    *)
(* the delete click handler, validateData, saveChanges) and the            *)
(* saveChanges handler of previewTable in src/src/extension.ts, together   *)
(* with the backend table the generated statements act on.                 *)
(*                                                                         *)
(* Abstractions: a statement is kept as a structured record (operation,    *)
(* WHERE map, SET/VALUES map) instead of text; the order of the columns    *)
(* inside one statement is not kept.  A JavaScript value is a tagged       *)
(* record (null, string, number); webview cell texts are plain strings.    *)
(***************************************************************************)
EXTENDS Integers, Sequences, FiniteSets, TLC, Bags

\* ------------------------------------------------------------------ bounds
MaxSteps == 5
MaxSaves == 1
MaxExternal == 1

\* First identifier handed to a grid row created by addNewRow; stands for
\* the string 'new-' + Date.now(), which is never a row index.
NewBase == 100

\* --------------------------------------------------------- JavaScript values
JsNull == [k |-> "null", s |-> ""]
JsStr(s) == [k |-> "str", s |-> s]
JsNum(s) == [k |-> "num", s |-> s]

\* value === null ? 'NULL' : value   (cell text, template of the table body)
CellText(v) == IF v.k = "null" THEN "NULL" ELSE v.s

\* s.trim() === ''
IsBlank(s) == s \in {"", " "}

\* Texts a user types into a cell of the given column.
InputsFor(column) ==
    IF column \in {"id", "_id"} THEN {"", "7"}
    ELSE IF column = "name" THEN {"NULL", "b"}
    ELSE {""}

Numerals == {"1", "3", "7", "9"}

\* --------------------------------------------------------------- the schema
PkCol(b) == IF b = "mongodb" THEN "_id" ELSE "id"
ColumnsOf(b) == {PkCol(b), "name", "email"}

\* columnsMetadata: name, notNull, isPrimaryKey per column.  For MongoDB every
\* inferred field is nullable and _id is the key.
columnsMetadataOf(b, pks) ==
    [c \in ColumnsOf(b) |->
        [notNull |-> IF b = "mongodb" THEN FALSE ELSE (c = "name" \/ c \in pks),
         isPrimaryKey |-> c \in pks]]

MkRow(b, i, n, e) == (PkCol(b) :> i) @@ ("name" :> n) @@ ("email" :> e)

\* The tables an edit session is opened on.
Scenarios ==
    { [backend |-> "sql", pks |-> {"id"},
       rows |-> << MkRow("sql", JsNum("1"), JsStr("a"), JsNull),
                   MkRow("sql", JsNum("3"), JsStr("b"), JsStr("x")) >>],
      [backend |-> "sql", pks |-> {"id", "name"},
       rows |-> << MkRow("sql", JsNum("1"), JsStr("a"), JsStr("x")),
                   MkRow("sql", JsNum("1"), JsStr("b"), JsStr("y")) >>],
      [backend |-> "sql", pks |-> {},
       rows |-> << MkRow("sql", JsNum("1"), JsStr("a"), JsStr("x")),
                   MkRow("sql", JsNum("1"), JsStr("a"), JsStr("x")) >>],
      [backend |-> "mongodb", pks |-> {"_id"},
       rows |-> << MkRow("mongodb", JsNum("1"), JsStr("a"), JsStr("x")),
                   MkRow("mongodb", JsNum("3"), JsStr("b"), JsNull) >>] }

VARIABLES
    backend,        \* config.type: "sql" (mysql, sqlite, oracle) or "mongodb"
    primaryKeys,    \* primaryKeys of the previewed table
    db,             \* the table in the backend: sequence of rows
    result,         \* rows the grid was rendered from (last fetch shown)
    grid,           \* tbody: row id -> column -> cell text
    hidden,         \* rows with display:none after a delete click
    newRowEls,      \* rows carrying the class 'new-row'
    modifiedData,   \* webview: row id -> column -> new text
    deletedRows,    \* webview: row ids marked deleted
    newRows,        \* webview: ids of the rows added in the grid
    nextNew,        \* number of rows created by addNewRow
    steps,          \* number of user gestures (edits, added rows, delete clicks)
    pc,             \* position of the save cycle
    msg,            \* the saveChanges message posted to the extension
    originalData,   \* handler: rows re-fetched at the start of the handler
    plan,           \* handler: statements still to be issued, in order
    log,            \* statements issued to the backend in this cycle
    dbAtSave,       \* the table when the handler started
    outcome,        \* messages delivered to the webview in this cycle
    snapshot,       \* result when the save button was clicked
    batch,          \* the edit batch when the save button was clicked
    saves,          \* number of clicks on the save button
    externals       \* number of writes of another client

\* DatabaseManager (the connection registry) and the ConfigManager behind it.
VARIABLES
    configs,            \* ConfigManager.configs: profile id -> DatabaseConfig
    connections,        \* DatabaseManager.connections: profile id -> handle
    connectionStatus,   \* DatabaseManager.connectionStatus: profile id -> flag
    handles,            \* every handle a driver has opened so far
    calls,              \* the calls of the manager that are suspended at an await
    started,            \* number of calls made on the manager
    version,            \* number of writes to the stored profiles
    returned            \* how the call that returned last has ended

previewVars == << backend, primaryKeys, db, result, grid, hidden, newRowEls,
                  modifiedData, deletedRows, newRows, nextNew, steps, pc, msg,
                  originalData, plan, log, dbAtSave, outcome, snapshot, batch,
                  saves, externals >>

managerVars == << configs, connections, connectionStatus, handles, calls,
                  started, version, returned >>

\* ConfigManager: the profile file and the writes to it.
VARIABLES
    file,       \* contents of database-configs.json
    writes,     \* writeFile calls that have not completed yet
    order,      \* insertion order of the keys of ConfigManager.configs
    clock,      \* Date.now()
    handed,     \* profile id -> profile, as handed out by the store so far
    loads,      \* number of times the store was constructed again
    storeOps    \* number of calls made on the store, constructions included

storeVars == << file, writes, order, clock, handed, loads, storeOps >>

registryVars == << connections, connectionStatus, handles, calls, started,
                   version, returned >>

\* DatabaseServiceImpl: its own registry of connections and transactions.
VARIABLES
    svcConnections,          \* DatabaseServiceImpl.connections: id -> driver arguments
    transactionConnections,  \* ids with a registered transaction
    svcCall,                 \* the connect call in progress, if any
    svcLast,                 \* how the call that returned last has ended
    svcOps                   \* number of calls made on the service

serviceVars == << svcConnections, transactionConnections, svcCall, svcLast,
                 svcOps >>

\* DatabaseManager.executeQuery on a MongoDB connection.
VARIABLES
    query,      \* the command text, as a sequence of lexical pieces
    native,     \* the native collection operations invoked
    cmdResult   \* "pending", "returned", or the error thrown

commandVars == << query, native, cmdResult >>

\* What an action of the table preview, of the manager, of the store, of the
\* service, of the command execution leaves alone.
beyondPreview == << managerVars, storeVars, serviceVars, commandVars >>
beyondManager == << previewVars, storeVars, serviceVars, commandVars >>
beyondStore == << previewVars, registryVars, serviceVars, commandVars >>
beyondService == << previewVars, managerVars, storeVars, commandVars >>
beyondCommand == << previewVars, managerVars, storeVars, serviceVars >>

vars == << previewVars, managerVars, storeVars, serviceVars, commandVars >>

uiVars == << grid, hidden, newRowEls, modifiedData, deletedRows, newRows,
             nextNew, steps >>
cycleVars == << pc, msg, originalData, plan, log, dbAtSave, outcome, snapshot,
               batch, saves >>

columnsMetadata == columnsMetadataOf(backend, primaryKeys)
Columns == ColumnsOf(backend)

EmptyMap == << >>
EmptyMsg == [modifiedData |-> EmptyMap, deletedRows |-> << >>, newRows |-> << >>]

\* result.map((row, rowIndex) => <tr data-id=rowIndex> ... CellText ...)
RenderGrid(rows) ==
    [r \in 0 .. (Len(rows) - 1) |-> [c \in Columns |-> CellText(rows[r + 1][c])]]

PreviewOpened(S) ==
    /\ \E sc \in S :
          /\ backend = sc.backend
          /\ primaryKeys = sc.pks
          /\ db = sc.rows
          /\ result = sc.rows
          /\ snapshot = sc.rows
          /\ grid = [r \in 0 .. (Len(sc.rows) - 1) |->
                        [c \in ColumnsOf(sc.backend) |-> CellText(sc.rows[r + 1][c])]]
    /\ hidden = {}
    /\ newRowEls = {}
    /\ modifiedData = EmptyMap
    /\ deletedRows = << >>
    /\ newRows = << >>
    /\ nextNew = 0
    /\ steps = 0
    /\ pc = "idle"
    /\ msg = EmptyMsg
    /\ batch = EmptyMsg
    /\ originalData = << >>
    /\ plan = << >>
    /\ log = << >>
    /\ dbAtSave = << >>
    /\ outcome = << >>
    /\ saves = 0
    /\ externals = 0

PreviewInit == PreviewOpened(Scenarios)

\* No table preview has been opened.
PreviewClosed ==
    PreviewOpened({[backend |-> "sql", pks |-> {}, rows |-> << >>]})

\* No call of the manager has returned yet.
NoReturn ==
    [op |-> "none", id |-> "", result |-> "", h |-> 0, wasConnected |-> FALSE,
     found |-> FALSE, closeError |-> FALSE]

\* No call has been made on the manager.
RegistryIdle ==
    /\ connections = EmptyMap
    /\ connectionStatus = EmptyMap
    /\ handles = << >>
    /\ calls = << >>
    /\ started = 0
    /\ version = 0
    /\ returned = NoReturn

\* Nothing is configured and no call has been made on the manager.
ManagerIdle == configs = EmptyMap /\ RegistryIdle

\* The store as the manager sees it: the profile file is not looked at.
StoreIdle ==
    /\ file = [kind |-> "list", configs |-> << >>]
    /\ writes = EmptyBag
    /\ order = << >>
    /\ clock = 0
    /\ handed = EmptyMap
    /\ loads = 0
    /\ storeOps = 0

\* A DatabaseConfig; a field that is absent holds "", which the checks of
\* connect (!config.host ...) treat like undefined.
BlankConfig ==
    [type |-> "", host |-> "", port |-> "", username |-> "", password |-> "",
     database |-> "", filename |-> "", connectionString |-> "", sid |-> "",
     serviceName |-> ""]

\* No call in progress on the service.
NoServiceCall ==
    [pc |-> "idle", cfg |-> BlankConfig, attempt |-> 0, io |-> 0,
     delays |-> << >>]

NoServiceReturn ==
    [op |-> "none", id |-> << >>, cfg |-> BlankConfig, result |-> "",
     attempts |-> 0,
     io |-> 0, delays |-> << >>]

ServiceIdle ==
    /\ svcConnections = EmptyMap
    /\ transactionConnections = {}
    /\ svcCall = NoServiceCall
    /\ svcLast = NoServiceReturn
    /\ svcOps = 0

\* No command has been given to executeQuery.
CommandIdle ==
    /\ query = << >>
    /\ native = << >>
    /\ cmdResult = "pending"

Init == PreviewInit /\ ManagerIdle /\ StoreIdle /\ ServiceIdle /\ CommandIdle

\* ---------------------------------------------------------- webview script
SeqToSet(s) == {s[i] : i \in 1 .. Len(s)}
Without(s, x) == SelectSeq(s, LAMBDA y : y # x)

\* modifiedData[rowId][column] = value (creating modifiedData[rowId])
SetCell(md, rowId, column, value) ==
    LET old == IF rowId \in DOMAIN md THEN md[rowId] ELSE EmptyMap
        new == [c \in (DOMAIN old) \cup {column} |->
                   IF c = column THEN value ELSE old[c]]
    IN  [r \in (DOMAIN md) \cup {rowId} |-> IF r = rowId THEN new ELSE md[r]]

\* addNewRow: a row of empty cells, one per header, appended to tbody.
addNewRow ==
    /\ pc = "idle"
    /\ saves < MaxSaves
    /\ steps < MaxSteps
    /\ LET newRowId == NewBase + nextNew IN
          /\ grid' = [r \in (DOMAIN grid) \cup {newRowId} |->
                         IF r = newRowId THEN [c \in Columns |-> ""] ELSE grid[r]]
          /\ newRowEls' = newRowEls \cup {newRowId}
          /\ newRows' = Append(newRows, newRowId)
    /\ nextNew' = nextNew + 1
    /\ steps' = steps + 1
    /\ UNCHANGED << hidden, modifiedData, deletedRows >>
    /\ UNCHANGED << backend, primaryKeys, db, result, externals >>
    /\ UNCHANGED beyondPreview
    /\ UNCHANGED cycleVars

\* finishEditing: the check of the edited cell (key or not-null column left
\* empty keeps the input open, nothing is recorded).
EditRefused(column, newValue) ==
    /\ (column \in primaryKeys \/ columnsMetadata[column].notNull)
    /\ (newValue = "" \/ newValue = "NULL" \/ IsBlank(newValue))

\* startEditing followed by finishEditing on one cell.
finishEditing(rowId, column, newValue) ==
    /\ pc = "idle"
    /\ saves < MaxSaves
    /\ steps < MaxSteps
    /\ rowId \in DOMAIN grid
    /\ rowId \notin hidden
    /\ ~ EditRefused(column, newValue)
    /\ grid' = [grid EXCEPT ![rowId][column] = newValue]
    /\ modifiedData' = IF newValue # grid[rowId][column]
                          THEN SetCell(modifiedData, rowId, column, newValue)
                          ELSE modifiedData
    /\ steps' = steps + 1
    /\ UNCHANGED << hidden, newRowEls, deletedRows, newRows, nextNew >>
    /\ UNCHANGED << backend, primaryKeys, db, result, externals >>
    /\ UNCHANGED beyondPreview
    /\ UNCHANGED cycleVars

\* click on a delete-row button
deleteRowClick(rowId) ==
    /\ pc = "idle"
    /\ saves < MaxSaves
    /\ steps < MaxSteps
    /\ rowId \in DOMAIN grid
    /\ rowId \notin hidden
    /\ IF rowId \in SeqToSet(newRows)
          THEN /\ newRows' = Without(newRows, rowId)
               /\ grid' = [r \in (DOMAIN grid) \ {rowId} |-> grid[r]]
               /\ newRowEls' = newRowEls \ {rowId}
               /\ UNCHANGED << deletedRows, hidden >>
          ELSE /\ deletedRows' = Append(deletedRows, rowId)
               /\ hidden' = hidden \cup {rowId}
               /\ UNCHANGED << newRows, grid, newRowEls >>
    /\ steps' = steps + 1
    /\ UNCHANGED << modifiedData, nextNew >>
    /\ UNCHANGED << backend, primaryKeys, db, result, externals >>
    /\ UNCHANGED beyondPreview
    /\ UNCHANGED cycleVars

\* validateData without the not-null check.
validateDataKeysOnly(data) ==
    {c \in Columns :
        /\ c \in primaryKeys
        /\ (c \notin DOMAIN data \/ data[c] = "" \/ data[c] = "NULL" \/ IsBlank(data[c]))}

\* validateData(data): one error per key or not-null column whose entry in
\* data is missing, empty, 'NULL' or blank.
validateData(data) ==
    {c \in Columns :
        /\ (c \in primaryKeys \/ columnsMetadata[c].notNull)
        /\ (c \notin DOMAIN data \/ data[c] = "" \/ data[c] = "NULL" \/ IsBlank(data[c]))}


\* saveChanges of the webview: every entry of modifiedData is validated as it
\* stands, then every .new-row element has all its cells copied into
\* modifiedData and is validated; any error keeps the message from being sent.
FilledModifiedData ==
    [r \in (DOMAIN modifiedData) \cup newRowEls |->
        IF r \in newRowEls THEN [c \in Columns |-> grid[r][c]] ELSE modifiedData[r]]

\* hasErrors without the loop over the .new-row elements.
hasErrorsModifiedOnly ==
    \E r \in DOMAIN modifiedData : validateData(modifiedData[r]) # {}

hasErrors ==
    \/ \E r \in DOMAIN modifiedData : validateData(modifiedData[r]) # {}
    \/ \E r \in newRowEls : validateData(FilledModifiedData[r]) # {}

saveChanges ==
    /\ pc = "idle"
    /\ saves < MaxSaves
    /\ saves' = saves + 1
    /\ modifiedData' = FilledModifiedData
    /\ log' = << >>
    /\ snapshot' = result
    /\ batch' = [modifiedData |-> FilledModifiedData,
                 deletedRows |-> deletedRows,
                 newRows |-> newRows]
    /\ IF hasErrors
          THEN /\ outcome' = << "validationError" >>
               /\ UNCHANGED << pc, msg >>
          ELSE /\ outcome' = << >>
               /\ pc' = "posted"
               /\ msg' = [modifiedData |-> FilledModifiedData,
                          deletedRows |-> deletedRows,
                          newRows |-> newRows]
    /\ UNCHANGED << grid, hidden, newRowEls, deletedRows, newRows, nextNew, steps >>
    /\ UNCHANGED << originalData, plan, dbAtSave >>
    /\ UNCHANGED << backend, primaryKeys, db, result, externals >>
    /\ UNCHANGED beyondPreview

\* ------------------------------------------------- statements and literals
PageLimit == 1000
Min(a, b) == IF a < b THEN a ELSE b

\* A fetch that loses the first row of the page.
FetchRowsSkipFirst(t) == SubSeq(t, 2, Min(Len(t), PageLimit))

\* SELECT * FROM table LIMIT 1000
FetchRows(t) == SubSeq(t, 1, Min(Len(t), PageLimit))

NoRow == -1

NullKeyword == [form |-> "null", esc |-> FALSE, text |-> "NULL"]

\* typeof value === 'string' ? "'" + value + "'" : value
\* (esc: the builder doubles the single quotes of the string)
Literal(v, esc) ==
    IF v.k = "str" THEN [form |-> "quoted", esc |-> esc, text |-> v.s]
    ELSE IF v.k = "num" THEN [form |-> "bare", esc |-> FALSE, text |-> v.s]
    ELSE [form |-> "bare", esc |-> FALSE, text |-> "null"]

IsNullCond == [isnull |-> TRUE, lit |-> NullKeyword]
EqCond(l) == [isnull |-> FALSE, lit |-> l]

\* value === null || value === 'NULL' || value === ''
IsEmptyValue(v) == v.k = "null" \/ (v.k = "str" /\ v.s \in {"NULL", ""})

Stmt(op, where, set, ref, src) ==
    [op |-> op, where |-> where, set |-> set, ref |-> ref, src |-> src]

\* originalData[rowId] is defined
HasOriginal(od, rowId) == rowId \in 0 .. (Len(od) - 1)
Original(od, rowId) == od[rowId + 1]

\* Ascending enumeration of a finite set of row ids: the order of for...in
\* over modifiedData (index-like keys ascending, then the 'new-...' keys).
RECURSIVE SortedSeq(_)
SortedSeq(S) ==
    IF S = {} THEN << >>
    ELSE LET m == CHOOSE x \in S : \A y \in S : x <= y
         IN  << m >> \o SortedSeq(S \ {m})

\* Array.prototype.find
Find(seq, P(_)) ==
    IF \E i \in 1 .. Len(seq) : P(seq[i])
       THEN seq[CHOOSE i \in 1 .. Len(seq) :
                   P(seq[i]) /\ \A j \in 1 .. (i - 1) : ~ P(seq[j])]
       ELSE NoRow

\* -------------------------------------------- handler: the changes object
\* changes.deletes: one entry per deleted-row marker that has a re-fetched row
BuildDeletes(m, od, pks) ==
    LET kept == SelectSeq(m.deletedRows, LAMBDA rowId : HasOriginal(od, rowId))
    IN  [i \in 1 .. Len(kept) |->
            [ref |-> kept[i],
             primaryKeyData |-> [pk \in pks |-> Original(od, kept[i])[pk]],
             rowData |-> Original(od, kept[i])]]

\* changes.updates: one entry per entry of modifiedData that is not a new row
BuildUpdates(m, od, pks) ==
    LET ids == SelectSeq(SortedSeq(DOMAIN m.modifiedData),
                         LAMBDA rowId : rowId \notin SeqToSet(m.newRows))
    IN  [i \in 1 .. Len(ids) |->
            [ref |-> ids[i],
             primaryKeyData |-> IF HasOriginal(od, ids[i])
                                   THEN [pk \in pks |-> Original(od, ids[i])[pk]]
                                   ELSE EmptyMap,
             updateData |-> m.modifiedData[ids[i]]]]

\* changes.inserts: one entry per new row that has an entry in modifiedData
BuildInserts(m) ==
    LET ids == SelectSeq(m.newRows, LAMBDA rowId : rowId \in DOMAIN m.modifiedData)
    IN  [i \in 1 .. Len(ids) |->
            [ref |-> ids[i], insertData |-> m.modifiedData[ids[i]]]]


\* A value of the message: cell texts travel as JavaScript strings.
MsgValue(t) == JsStr(t)

\* ------------------------------------------------ handler: SQL statements
\* rowId = message.deletedRows.find(id => Object.entries(primaryKeyData)
\*            .some(([key, value]) => originalData[id] && originalData[id][key] === value))
DeleteRowLookup(m, od, deleteOp) ==
    Find(m.deletedRows,
         LAMBDA id : \E key \in DOMAIN deleteOp.primaryKeyData :
                        /\ HasOriginal(od, id)
                        /\ Original(od, id)[key] = deleteOp.primaryKeyData[key])

\* WHERE of a DELETE: every column of originalData[rowId]
DeleteWhere(row) ==
    [c \in DOMAIN row |->
        IF IsEmptyValue(row[c]) THEN IsNullCond ELSE EqCond(Literal(row[c], TRUE))]

SkipStmt == Stmt("SKIP", EmptyMap, EmptyMap, NoRow, NoRow)

DeleteStmt(m, od, deleteOp) ==
    LET rowId == DeleteRowLookup(m, od, deleteOp) IN
    IF rowId = NoRow \/ ~ HasOriginal(od, rowId) THEN SkipStmt
    ELSE IF DOMAIN Original(od, rowId) = {} THEN SkipStmt
    ELSE Stmt("DELETE", DeleteWhere(Original(od, rowId)), EmptyMap, deleteOp.ref, rowId)

\* WHERE of an UPDATE: the entries of primaryKeyData
UpdateWhere(primaryKeyData, pks) ==
    [c \in DOMAIN primaryKeyData |->
        IF c \in pks THEN EqCond(Literal(primaryKeyData[c], FALSE))
        ELSE IF IsEmptyValue(primaryKeyData[c]) THEN IsNullCond
        ELSE EqCond(Literal(primaryKeyData[c], FALSE))]

\* SET of an UPDATE: the entries of updateData
UpdateSet(updateData, pks) ==
    [c \in DOMAIN updateData |->
        IF c \in pks THEN Literal(MsgValue(updateData[c]), FALSE)
        ELSE IF MsgValue(updateData[c]).k = "null" THEN NullKeyword
        ELSE Literal(MsgValue(updateData[c]), FALSE)]

UpdateStmt(updateOp, pks) ==
    Stmt("UPDATE", UpdateWhere(updateOp.primaryKeyData, pks),
         UpdateSet(updateOp.updateData, pks), updateOp.ref, updateOp.ref)

\* columns of an INSERT: a key column is kept only when its value is not
\* 'NULL' and not blank; every other column is kept.
InsertColumns(insertData, pks) ==
    {c \in DOMAIN insertData :
        c \in pks => ~ (insertData[c] = "NULL" \/ IsBlank(insertData[c]))}

InsertValues(insertData, pks) ==
    [c \in InsertColumns(insertData, pks) |->
        IF IsEmptyValue(MsgValue(insertData[c])) THEN NullKeyword
        ELSE Literal(MsgValue(insertData[c]), TRUE)]

InsertStmt(insertOp, pks) ==
    Stmt("INSERT", EmptyMap, InsertValues(insertOp.insertData, pks),
         insertOp.ref, NoRow)

\* -------------------------------------------- handler: MongoDB operations
\* if (value) ...
Truthy(v) == v.k # "null" /\ v.s \notin {"", "0"}

\* value !== null && value !== undefined && value !== ''
NonEmptyEntries(data) ==
    LET keep == {c \in DOMAIN data : ~ (data[c].k = "null" \/ data[c] = JsStr(""))}
    IN  [c \in keep |-> data[c]]

MongoFilter(data) ==
    IF "_id" \in DOMAIN data /\ Truthy(data["_id"])
       THEN [c \in {"_id"} |-> data["_id"]]
       ELSE NonEmptyEntries(data)

MongoDeleteOp(deleteOp) ==
    Stmt("deleteOne", MongoFilter(deleteOp.rowData), EmptyMap, deleteOp.ref, deleteOp.ref)

MongoUpdateOp(updateOp) ==
    Stmt("updateOne", MongoFilter(updateOp.primaryKeyData),
         [c \in DOMAIN updateOp.updateData |-> MsgValue(updateOp.updateData[c])],
         updateOp.ref, updateOp.ref)

MongoInsertOp(insertOp) ==
    Stmt("insertOne", EmptyMap,
         [c \in DOMAIN insertOp.insertData |-> MsgValue(insertOp.insertData[c])],
         insertOp.ref, NoRow)

\* ------------------------------------------------------ handler: the plan
MapSeq(seq, F(_)) == [i \in 1 .. Len(seq) |-> F(seq[i])]
Issued(seq) == SelectSeq(seq, LAMBDA st : st.op # "SKIP")

DeletePhase(b, m, od, pks) ==
    IF b = "mongodb"
       THEN MapSeq(BuildDeletes(m, od, pks), MongoDeleteOp)
       ELSE Issued(MapSeq(BuildDeletes(m, od, pks), LAMBDA d : DeleteStmt(m, od, d)))

UpdatePhase(b, m, od, pks) ==
    IF b = "mongodb"
       THEN MapSeq(BuildUpdates(m, od, pks), MongoUpdateOp)
       ELSE MapSeq(BuildUpdates(m, od, pks), LAMBDA u : UpdateStmt(u, pks))

InsertPhase(b, m, pks) ==
    IF b = "mongodb"
       THEN MapSeq(BuildInserts(m), MongoInsertOp)
       ELSE MapSeq(BuildInserts(m), LAMBDA n : InsertStmt(n, pks))

\* The update loop placed before the delete loop.
BuildPlanUpdatesFirst(b, m, od, pks) ==
    UpdatePhase(b, m, od, pks) \o DeletePhase(b, m, od, pks) \o InsertPhase(b, m, pks)

\* The statements of one cycle in the order the handler issues them: the
\* three loops run one after the other, each statement awaited in turn.
BuildPlan(b, m, od, pks) ==
    DeletePhase(b, m, od, pks) \o UpdatePhase(b, m, od, pks) \o InsertPhase(b, m, pks)


\* ------------------------------------------------------------ the backend
\* Value generated by the backend for an omitted numeric key.
AutoId == "9"

LitIsNull(l) == l.form = "null" \/ (l.form = "bare" /\ l.text = "null")

\* column = literal compares by value (a numeric column against '7' matches
\* 7); nothing equals NULL; IS NULL holds of NULL only, not of ''.
CondHolds(cond, v) ==
    IF cond.isnull THEN v.k = "null"
    ELSE ~ LitIsNull(cond.lit) /\ v.k # "null" /\ v.s = cond.lit.text

Matches(where, row) == \A c \in DOMAIN where : CondHolds(where[c], row[c])

IsNumericColumn(c) == c = "id"

Stored(c, l) ==
    IF LitIsNull(l) THEN JsNull
    ELSE IF IsNumericColumn(c) THEN JsNum(l.text)
    ELSE JsStr(l.text)

TypeOk(set) ==
    \A c \in DOMAIN set :
        (IsNumericColumn(c) /\ ~ LitIsNull(set[c])) => set[c].text \in Numerals

\* Key and not-null constraints of the table.
Consistent(t, b, pks) ==
    /\ \A i \in 1 .. Len(t) : \A c \in ColumnsOf(b) :
          columnsMetadataOf(b, pks)[c].notNull => t[i][c].k # "null"
    /\ pks # {} =>
          \A i, j \in 1 .. Len(t) :
              (\A c \in pks : t[i][c] = t[j][c]) => i = j

Assign(row, set) ==
    [c \in DOMAIN row |-> IF c \in DOMAIN set THEN Stored(c, set[c]) ELSE row[c]]

InsertedRow(set, b, pks) ==
    [c \in ColumnsOf(b) |->
        IF c \in DOMAIN set THEN Stored(c, set[c])
        ELSE IF c \in pks /\ IsNumericColumn(c) THEN JsNum(AutoId)
        ELSE JsNull]

SqlApply(st, t, b, pks) ==
    IF st.op = "DELETE" THEN SelectSeq(t, LAMBDA row : ~ Matches(st.where, row))
    ELSE IF st.op = "UPDATE"
       THEN [i \in 1 .. Len(t) |->
                IF Matches(st.where, t[i]) THEN Assign(t[i], st.set) ELSE t[i]]
    ELSE Append(t, InsertedRow(st.set, b, pks))

\* UPDATE t SET <nothing> or WHERE <nothing> is not a statement.
SqlWellFormed(st) ==
    st.op = "UPDATE" => (DOMAIN st.set # {} /\ DOMAIN st.where # {})

SqlAccepts(st, t, b, pks) ==
    /\ SqlWellFormed(st)
    /\ TypeOk(st.set)
    /\ Consistent(SqlApply(st, t, b, pks), b, pks)

\* MongoDB: a filter matches by strict equality of every entry; deleteOne
\* and updateOne act on the first matching document only.
MongoMatches(filter, doc) == \A c \in DOMAIN filter : doc[c] = filter[c]

FirstMatch(filter, t) ==
    IF \E i \in 1 .. Len(t) : MongoMatches(filter, t[i])
       THEN CHOOSE i \in 1 .. Len(t) :
               MongoMatches(filter, t[i]) /\ \A j \in 1 .. (i - 1) : ~ MongoMatches(filter, t[j])
       ELSE 0

RemoveAt(t, i) == [j \in 1 .. (Len(t) - 1) |-> IF j < i THEN t[j] ELSE t[j + 1]]

MongoApply(st, t) ==
    LET i == FirstMatch(st.where, t) IN
    IF st.op = "deleteOne" THEN (IF i = 0 THEN t ELSE RemoveAt(t, i))
    ELSE IF st.op = "updateOne"
       THEN (IF i = 0 THEN t
             ELSE [t EXCEPT ![i] = [c \in DOMAIN t[i] |->
                                       IF c \in DOMAIN st.set THEN st.set[c] ELSE t[i][c]]])
    ELSE Append(t, [c \in ColumnsOf("mongodb") |->
                       IF c \in DOMAIN st.set THEN st.set[c] ELSE JsNull])

\* _id is immutable and unique.
MongoAccepts(st, t) ==
    /\ st.op = "updateOne" =>
          LET i == FirstMatch(st.where, t) IN
          (i # 0 /\ "_id" \in DOMAIN st.set) => st.set["_id"] = t[i]["_id"]
    /\ \A i, j \in 1 .. Len(MongoApply(st, t)) :
          MongoApply(st, t)[i]["_id"] = MongoApply(st, t)[j]["_id"] => i = j

Apply(st, t, b, pks) ==
    IF b = "mongodb" THEN MongoApply(st, t) ELSE SqlApply(st, t, b, pks)

Accepts(st, t, b, pks) ==
    IF b = "mongodb" THEN MongoAccepts(st, t) ELSE SqlAccepts(st, t, b, pks)

\* ------------------------------------------- handler of saveChanges: steps
\* First await of the handler: the table is fetched again and indexed by
\* position; the changes object and the statements follow from it.  A failed
\* fetch throws, the outer catch posts 'error'.
handlerFetch ==
    /\ pc = "posted"
    /\ \E ok \in BOOLEAN :
          IF ok
             THEN /\ originalData' = FetchRows(db)
                  /\ plan' = BuildPlan(backend, msg, FetchRows(db), primaryKeys)
                  /\ dbAtSave' = db
                  /\ pc' = "executing"
                  /\ UNCHANGED outcome
             ELSE /\ outcome' = Append(outcome, "error")
                  /\ pc' = "idle"
                  /\ UNCHANGED << originalData, plan, dbAtSave >>
    /\ UNCHANGED << msg, log, snapshot, batch, saves >>
    /\ UNCHANGED uiVars
    /\ UNCHANGED << backend, primaryKeys, db, result, externals >>
    /\ UNCHANGED beyondPreview

\* One awaited statement: it is applied (each statement commits on its own,
\* the handler opens no transaction), or it fails and the handler throws.
execStatement ==
    /\ pc = "executing"
    /\ plan # << >>
    /\ log' = Append(log, Head(plan))
    /\ \E ok \in BOOLEAN :
          IF ok /\ Accepts(Head(plan), db, backend, primaryKeys)
             THEN /\ db' = Apply(Head(plan), db, backend, primaryKeys)
                  /\ plan' = Tail(plan)
                  /\ UNCHANGED << pc, outcome >>
             ELSE /\ outcome' = Append(outcome, "error")
                  /\ pc' = "idle"
                  /\ UNCHANGED << db, plan >>
    /\ UNCHANGED << msg, originalData, dbAtSave, snapshot, batch, saves >>
    /\ UNCHANGED uiVars
    /\ UNCHANGED << backend, primaryKeys, result, externals >>
    /\ UNCHANGED beyondPreview

\* postMessage({command: 'saveSuccess'}) and its handling in the webview.
postSaveSuccess ==
    /\ pc = "executing"
    /\ plan = << >>
    /\ outcome' = Append(outcome, "saveSuccess")
    /\ pc' = "refreshing"
    /\ modifiedData' = EmptyMap
    /\ deletedRows' = << >>
    /\ newRows' = << >>
    /\ newRowEls' = {}
    /\ UNCHANGED << grid, hidden, nextNew, steps >>
    /\ UNCHANGED << msg, originalData, plan, log, dbAtSave, snapshot, batch, saves >>
    /\ UNCHANGED << backend, primaryKeys, db, result, externals >>
    /\ UNCHANGED beyondPreview

\* The refresh query and 'updateData'; a failed refresh is only logged.
refresh ==
    /\ pc = "refreshing"
    /\ pc' = "idle"
    /\ \E ok \in BOOLEAN :
          IF ok
             THEN /\ result' = FetchRows(db)
                  /\ grid' = RenderGrid(FetchRows(db))
                  /\ hidden' = {}
                  /\ newRowEls' = {}
                  /\ modifiedData' = EmptyMap
                  /\ deletedRows' = << >>
                  /\ newRows' = << >>
                  /\ outcome' = Append(outcome, "updateData")
             ELSE UNCHANGED << result, grid, hidden, newRowEls, modifiedData,
                               deletedRows, newRows, outcome >>
    /\ UNCHANGED << nextNew, steps >>
    /\ UNCHANGED << msg, originalData, plan, log, dbAtSave, snapshot, batch, saves >>
    /\ UNCHANGED << backend, primaryKeys, db, externals >>
    /\ UNCHANGED beyondPreview

\* ------------------------------------------------------- another client
\* A write of another client of the same table between two awaits.
ExternalRow == MkRow(backend, JsNum("7"), JsStr("b"), JsNull)

externalInsert ==
    /\ externals < MaxExternal
    /\ db' = << ExternalRow >> \o db
    /\ Consistent(db', backend, primaryKeys)
    /\ externals' = externals + 1
    /\ UNCHANGED << backend, primaryKeys, result >>
    /\ UNCHANGED beyondPreview
    /\ UNCHANGED uiVars
    /\ UNCHANGED cycleVars

externalDelete ==
    /\ externals < MaxExternal
    /\ \E i \in 1 .. Len(db) : db' = RemoveAt(db, i)
    /\ externals' = externals + 1
    /\ UNCHANGED << backend, primaryKeys, result >>
    /\ UNCHANGED beyondPreview
    /\ UNCHANGED uiVars
    /\ UNCHANGED cycleVars

\* --------------------------------------------------------- specifications
Next ==
    \/ addNewRow
    \/ \E rowId \in DOMAIN grid : \E column \in Columns : \E newValue \in InputsFor(column) :
          finishEditing(rowId, column, newValue)
    \/ \E rowId \in DOMAIN grid : deleteRowClick(rowId)
    \/ saveChanges
    \/ handlerFetch
    \/ execStatement
    \/ postSaveSuccess
    \/ refresh

Spec == Init /\ [][Next]_vars

NextShared == Next \/ externalInsert \/ externalDelete

SpecShared == Init /\ [][NextShared]_vars


\* ------------------------------------------------------------- properties
Required(c) == c \in primaryKeys \/ columnsMetadata[c].notNull
EmptyText(t) == t \in {"", "NULL"}
IsDeleteOp(st) == st.op \in {"DELETE", "deleteOne"}
IsUpdateOp(st) == st.op \in {"UPDATE", "updateOne"}
IsInsertOp(st) == st.op \in {"INSERT", "insertOne"}
LogIndex == 1 .. Len(log)

\* The cycle of the last click on save has ended.
CycleEnded == saves > 0 /\ pc = "idle"

OpRank(st) == IF IsDeleteOp(st) THEN 0 ELSE IF IsUpdateOp(st) THEN 1 ELSE 2

\* C1: in one save cycle every delete is issued before any update and every
\* update before any insert, on the SQL path and on the MongoDB path.
C1_DeletesThenUpdatesThenInserts ==
    \A i, j \in LogIndex : i < j => OpRank(log[i]) <= OpRank(log[j])

C1_Witness ==
    \E i, j, k \in LogIndex :
        /\ i < j /\ j < k
        /\ IsDeleteOp(log[i]) /\ IsUpdateOp(log[j]) /\ IsInsertOp(log[k])

\* Some modified or new row of the clicked batch carries an empty, NULL or
\* 'NULL' value in a key or not-null column.
BatchHasEmptyRequired ==
    \E r \in DOMAIN batch.modifiedData : \E c \in DOMAIN batch.modifiedData[r] :
        Required(c) /\ EmptyText(batch.modifiedData[r][c])

RowComplete(data) ==
    \A c \in Columns : Required(c) => (c \in DOMAIN data /\ ~ EmptyText(data[c]))

\* C2: a batch with an empty key or not-null value in any modified or new row
\* is rejected as a whole: the cycle ends at validation and no delete, update
\* or insert is issued, not even for the valid rows of the batch.
C2_InvalidRowRejectsWholeBatch ==
    (saves > 0 /\ BatchHasEmptyRequired) =>
        (pc = "idle" /\ log = << >> /\ outcome = << "validationError" >>)

C2_Witness ==
    /\ saves > 0
    /\ BatchHasEmptyRequired
    /\ batch.deletedRows # << >>
    /\ \E r \in DOMAIN batch.modifiedData : RowComplete(batch.modifiedData[r])

AssignsEmptyTo(st, c) ==
    /\ c \in DOMAIN st.set
    /\ IF backend = "mongodb"
          THEN st.set[c].k = "null" \/ st.set[c].s = ""
          ELSE LitIsNull(st.set[c]) \/ st.set[c].text = ""

\* C3: no INSERT or UPDATE issued by the handler assigns NULL or an empty
\* value to a key or not-null column, and a batch holding such a value has no
\* statement issued at all.
C3_NoEmptyAssignmentToRequired ==
    /\ \A i \in LogIndex :
          (IsUpdateOp(log[i]) \/ IsInsertOp(log[i])) =>
              \A c \in Columns : Required(c) => ~ AssignsEmptyTo(log[i], c)
    /\ BatchHasEmptyRequired => Len(log) = 0

C3_Witness ==
    \E i, j \in LogIndex :
        /\ log[i].op = "UPDATE" /\ log[j].op = "INSERT"
        /\ \E c \in DOMAIN log[i].set : Required(c)
        /\ \E c \in DOMAIN log[j].set : Required(c)

\* C4: when a statement of a save cycle fails on a backend with transactions,
\* the table after the failed save equals the table before the save started.
C4_FailedSaveLeavesTableUnchanged ==
    (backend = "sql" /\ CycleEnded /\ "error" \in SeqToSet(outcome) /\ log # << >>) =>
        db = dbAtSave

StmtMatches(st, row) ==
    IF backend = "mongodb" THEN MongoMatches(st.where, row) ELSE Matches(st.where, row)

\* C5: on a table with a primary key, the identity predicate of every update
\* and delete, applied to the fetched snapshot, matches exactly the one row
\* the user edited or deleted.
C5_IdentityMatchesExactlyTheEditedRow ==
    primaryKeys # {} =>
        \A i \in LogIndex :
            ((IsDeleteOp(log[i]) \/ IsUpdateOp(log[i])) /\ HasOriginal(snapshot, log[i].ref)) =>
                {k \in 1 .. Len(snapshot) : StmtMatches(log[i], snapshot[k])}
                    = {log[i].ref + 1}

\* where is the equality over every column of row, IS NULL for NULL or empty
FullRowPredicate(where, row) ==
    /\ DOMAIN where = DOMAIN row
    /\ \A c \in DOMAIN row :
          IF row[c].k = "null" \/ row[c].s = ""
             THEN where[c].isnull
             ELSE ~ where[c].isnull /\ where[c].lit.text = row[c].s

\* C6: on a table without primary key, a save that deletes one row issues a
\* DELETE whose predicate is the equality over every column value of that row
\* of the snapshot, also when another row has the same values.
C6_NoKeyDeleteUsesFullRow ==
    (/\ backend = "sql" /\ primaryKeys = {}
     /\ Len(batch.deletedRows) = 1
     /\ DOMAIN batch.modifiedData = {} /\ batch.newRows = << >>
     /\ "saveSuccess" \in SeqToSet(outcome)) =>
        \E i \in LogIndex :
            /\ log[i].op = "DELETE"
            /\ FullRowPredicate(log[i].where, Original(snapshot, batch.deletedRows[1]))

ExistingRefs(m) ==
    {r \in SeqToSet(m.deletedRows) \cup (DOMAIN m.modifiedData \ SeqToSet(m.newRows)) :
        HasOriginal(snapshot, r)}

\* C7: the row values the handler builds the identity predicates from are the
\* ones captured when the table was fetched for the edit session, whatever
\* another writer did to the table between the fetch and the save.
C7_IdentityValuesFromEditSessionFetch ==
    pc = "executing" =>
        \A r \in ExistingRefs(msg) :
            HasOriginal(originalData, r) /\ Original(originalData, r) = Original(snapshot, r)

BatchIsEmpty ==
    DOMAIN batch.modifiedData = {} /\ batch.deletedRows = << >> /\ batch.newRows = << >>

C9_EmailOnlyEditIsOneUpdate ==
    (/\ backend = "sql" /\ primaryKeys = {"id"}
     /\ CycleEnded /\ "error" \notin SeqToSet(outcome)
     /\ batch.deletedRows = << >> /\ batch.newRows = << >>
     /\ \E r \in DOMAIN batch.modifiedData :
           /\ DOMAIN batch.modifiedData = {r}
           /\ HasOriginal(snapshot, r)
           /\ Original(snapshot, r)["id"] = JsNum("3")
           /\ batch.modifiedData[r] = ("email" :> "")) =>
        /\ Len(log) = 1
        /\ log[1].op = "UPDATE"
        /\ DOMAIN log[1].where = {"id"}
        /\ ~ log[1].where["id"].isnull /\ log[1].where["id"].lit.text = "3"
        /\ DOMAIN log[1].set = {"email"}
        /\ LitIsNull(log[1].set["email"])

\* C10: the save of a new row with an empty key value issues an INSERT that
\* omits the key column; with an explicit key value the INSERT has the key
\* column with exactly that value.
C10_InsertKeyOmittedOrVerbatim ==
    (/\ backend = "sql" /\ primaryKeys = {"id"}
     /\ CycleEnded /\ "error" \notin SeqToSet(outcome)
     /\ batch.deletedRows = << >> /\ Len(batch.newRows) = 1
     /\ DOMAIN batch.modifiedData = {batch.newRows[1]}
     /\ ~ EmptyText(batch.modifiedData[batch.newRows[1]]["name"])) =>
        \E i \in LogIndex :
            /\ log[i].op = "INSERT" /\ log[i].ref = batch.newRows[1]
            /\ IF EmptyText(batch.modifiedData[batch.newRows[1]]["id"])
                  THEN "id" \notin DOMAIN log[i].set
                  ELSE /\ "id" \in DOMAIN log[i].set
                       /\ log[i].set["id"].text = batch.modifiedData[batch.newRows[1]]["id"]

\* C11: a saveChanges request that reached the handler ends with exactly one
\* outcome in the webview: saveSuccess together with the refreshed rows
\* (updateData), or one error message; saveSuccess never comes without the
\* rows and never after a failed statement.
C11_OneOutcomeSuccessWithRows ==
    (CycleEnded /\ outcome # << "validationError" >>) =>
        \/ outcome = << "saveSuccess", "updateData" >>
        \/ outcome = << "error" >>

\* ------------------------------------------------------ connection profiles
MaxCalls == 4

ProfileIds == {"p1", "p2"}

MySqlProfile ==
    [BlankConfig EXCEPT !.type = "mysql", !.host = "h", !.port = "3306",
                        !.username = "u", !.password = "pw", !.database = "d"]
SqliteProfile == [BlankConfig EXCEPT !.type = "sqlite", !.filename = "f"]
MongoProfile ==
    [BlankConfig EXCEPT !.type = "mongodb", !.host = "h", !.port = "27017",
                        !.username = "u"]
OracleProfile ==
    [BlankConfig EXCEPT !.type = "oracle", !.host = "h", !.port = "1521",
                        !.username = "u", !.password = "pw", !.sid = "s"]

\* The profiles a store is loaded with: complete ones and ones that lack a
\* field their type needs.
Profiles ==
    { MySqlProfile,
      [MySqlProfile EXCEPT !.password = ""],
      SqliteProfile,
      [SqliteProfile EXCEPT !.filename = ""],
      MongoProfile,
      [MongoProfile EXCEPT !.port = ""],
      OracleProfile,
      [OracleProfile EXCEPT !.sid = ""],
      [BlankConfig EXCEPT !.type = "oracle", !.connectionString = "cs"] }

\* The profile updateConfig is called with.
EditedProfile == [MySqlProfile EXCEPT !.password = "pw2"]

Put(f, k, v) == [x \in (DOMAIN f) \cup {k} |-> IF x = k THEN v ELSE f[x]]
Drop(f, k) == [x \in (DOMAIN f) \ {k} |-> f[x]]

\* ConfigManager.getConfig: a copy of the stored profile.
getConfig(id) == configs[id]
HasConfig(id) == id \in DOMAIN configs

\* DatabaseManager.isConnected
isConnected(id) == id \in DOMAIN connectionStatus /\ connectionStatus[id]

\* The per-type checks of connect that run before the driver is called.
ConfigCheck(config) ==
    CASE config.type = "mysql" ->
            IF "" \in {config.host, config.username, config.password,
                       config.database, config.port}
               THEN "configIncomplete" ELSE "ok"
      [] config.type = "sqlite" ->
            IF config.filename = "" THEN "configIncomplete" ELSE "ok"
      [] config.type = "mongodb" ->
            IF "" \in {config.host, config.port} THEN "configIncomplete" ELSE "ok"
      [] config.type = "oracle" ->
            IF /\ "" \in {config.host, config.port, config.username, config.password}
               /\ config.connectionString = ""
               THEN "configIncomplete"
               ELSE IF /\ config.connectionString = ""
                       /\ config.sid = "" /\ config.serviceName = ""
                       THEN "configIncomplete" ELSE "ok"
      [] OTHER -> "unsupportedType"

\* What the driver is called with.
DriverArgs(config) ==
    CASE config.type = "mysql" ->
            << "mysql", config.host, config.port, config.username,
               config.password, config.database >>
      [] config.type = "sqlite" -> << "sqlite", config.filename >>
      [] config.type = "mongodb" ->
            << "mongodb" >>
            \o (IF config.username # "" /\ config.password # ""
                   THEN << config.username, config.password >> ELSE << >>)
            \o << config.host, config.port, config.database >>
      [] OTHER ->
            << "oracle" >>
            \o (IF config.connectionString # ""
                   THEN << config.connectionString >>
                   ELSE << config.host, config.port >>
                        \o (IF config.sid # "" THEN << "SID", config.sid >>
                            ELSE << "SERVICE_NAME", config.serviceName >>))
            \o << config.username, config.password >>

\* The profile of p1 is on file when the extension starts; p2 is not stored.
ManagerInit ==
    /\ \E p \in Profiles : configs = ("p1" :> p)
    /\ connections = EmptyMap
    /\ connectionStatus = EmptyMap
    /\ handles = << >>
    /\ calls = EmptyBag
    /\ started = 0
    /\ version = 0
    /\ returned = NoReturn

\* ----------------------------------------------------------- DatabaseManager
\* A call suspended at an await: connect waits for the driver to open
\* ("opening"), disconnect for the driver to close ("closing").
Call(op, id, at, cfg, ver, h) ==
    [op |-> op, id |-> id, pc |-> at, cfg |-> cfg, ver |-> ver, h |-> h]

Suspend(c) == calls (+) SetToBag({c})
Resume(c) == calls (-) SetToBag({c})

\* How a call has ended: its result or the error it threw, the handle it
\* opened or asked the driver to close (0: none), and what it found when it
\* ran.
Ret(op, id, res, h, wasConnected, found, closeError) ==
    [op |-> op, id |-> id, result |-> res, h |-> h,
     wasConnected |-> wasConnected, found |-> found, closeError |-> closeError]

HandleWithoutPassword(id, cfg, ver, by) ==
    [id |-> id, args |-> DriverArgs([cfg EXCEPT !.password = ""]), ver |-> ver,
     by |-> by, open |-> TRUE]

Handle(id, cfg, ver, by) ==
    [id |-> id, args |-> DriverArgs(cfg), ver |-> ver, by |-> by, open |-> TRUE]

RegisterWithoutStatus(op, id, cfg, ver) ==
    /\ handles' = Append(handles, Handle(id, cfg, ver, op))
    /\ connections' = Put(connections, id, Len(handles) + 1)
    /\ UNCHANGED connectionStatus
    /\ returned' = Ret(op, id, "true", Len(handles) + 1, FALSE, TRUE, FALSE)

\* connections.set(connectionId, connection); connectionStatus.set(.., true)
Register(op, id, cfg, ver) ==
    /\ handles' = Append(handles, Handle(id, cfg, ver, op))
    /\ connections' = Put(connections, id, Len(handles) + 1)
    /\ connectionStatus' = Put(connectionStatus, id, TRUE)
    /\ returned' = Ret(op, id, "true", Len(handles) + 1, FALSE, TRUE, FALSE)

\* connect(connectionId) up to its first await.  new sqlite3.Database(..)
\* returns at once, so a SQLite profile is registered without suspension.
ConnectBegin(op, id) ==
    IF ~ HasConfig(id)
       THEN /\ returned' = Ret(op, id, "profileNotFound", 0, FALSE, FALSE, FALSE)
            /\ UNCHANGED << connections, connectionStatus, handles, calls >>
       ELSE IF ConfigCheck(getConfig(id)) # "ok"
               THEN /\ returned' = Ret(op, id, ConfigCheck(getConfig(id)), 0,
                                       FALSE, TRUE, FALSE)
                    /\ UNCHANGED << connections, connectionStatus, handles, calls >>
               ELSE IF getConfig(id).type = "sqlite"
                       THEN /\ Register(op, id, getConfig(id), version)
                            /\ UNCHANGED calls
                       ELSE /\ calls' = Suspend(Call(op, id, "opening",
                                                     getConfig(id), version, 0))
                            /\ UNCHANGED << connections, connectionStatus,
                                            handles, returned >>

connect(id) ==
    /\ started < MaxCalls
    /\ started' = started + 1
    /\ ConnectBegin("connect", id)
    /\ UNCHANGED << configs, version >>
    /\ UNCHANGED beyondManager

ensureConnected(id) ==
    /\ started < MaxCalls
    /\ started' = started + 1
    /\ IF isConnected(id)
          THEN /\ returned' = Ret("ensureConnected", id, "true", 0, TRUE,
                                  HasConfig(id), FALSE)
               /\ UNCHANGED << connections, connectionStatus, handles, calls >>
          ELSE ConnectBegin("ensureConnected", id)
    /\ UNCHANGED << configs, version >>
    /\ UNCHANGED beyondManager

\* The driver has answered the open of a connect.
connectDone(c) ==
    /\ c \in BagToSet(calls)
    /\ c.pc = "opening"
    /\ calls' = Resume(c)
    /\ \E ok \in BOOLEAN :
          IF ok
             THEN Register(c.op, c.id, c.cfg, c.ver)
             ELSE /\ returned' = Ret(c.op, c.id, "connectFailure", 0, FALSE,
                                     TRUE, FALSE)
                  /\ UNCHANGED << connections, connectionStatus, handles >>
    /\ UNCHANGED << configs, version, started >>
    /\ UNCHANGED beyondManager

\* disconnect(connectionId) up to its await: nothing to do without a handle.
DisconnectBegin(op, id) ==
    calls' = Suspend(Call(op, id, "closing", BlankConfig, 0, connections[id]))

disconnect(id) ==
    /\ started < MaxCalls
    /\ started' = started + 1
    /\ IF id \in DOMAIN connections
          THEN /\ DisconnectBegin("disconnect", id)
               /\ UNCHANGED returned
          ELSE /\ returned' = Ret("disconnect", id, "void", 0, FALSE,
                                  HasConfig(id), FALSE)
               /\ UNCHANGED calls
    /\ UNCHANGED << configs, connections, connectionStatus, handles, version >>
    /\ UNCHANGED beyondManager

RemoveStoredUnlessCloseError(id, closeError, h) ==
    IF HasConfig(id) /\ ~ closeError
       THEN /\ configs' = Drop(configs, id)
            /\ version' = version + 1
            /\ \E saved \in BOOLEAN :
                  returned' = Ret("removeConfig", id,
                                  IF saved THEN "true" ELSE "saveFailed",
                                  h, FALSE, TRUE, closeError)
       ELSE /\ returned' = Ret("removeConfig", id, "false", h, FALSE,
                               HasConfig(id), closeError)
            /\ UNCHANGED << configs, version >>

\* ConfigManager.removeConfig: the profile is deleted from the map, then the
\* file is written; a failed write throws.
RemoveStored(id, closeError, h) ==
    IF HasConfig(id)
       THEN /\ configs' = Drop(configs, id)
            /\ version' = version + 1
            /\ \E saved \in BOOLEAN :
                  returned' = Ret("removeConfig", id,
                                  IF saved THEN "true" ELSE "saveFailed",
                                  h, FALSE, TRUE, closeError)
       ELSE /\ returned' = Ret("removeConfig", id, "false", h, FALSE, FALSE,
                               closeError)
            /\ UNCHANGED << configs, version >>

removeConfig(id) ==
    /\ started < MaxCalls
    /\ started' = started + 1
    /\ IF id \in DOMAIN connections
          THEN /\ DisconnectBegin("removeConfig", id)
               /\ UNCHANGED << configs, version, returned >>
          ELSE /\ RemoveStored(id, FALSE, 0)
               /\ UNCHANGED calls
    /\ UNCHANGED << connections, connectionStatus, handles >>
    /\ UNCHANGED beyondManager

\* updateConfig does not wait for its disconnect: the close goes on while
\* the profile is replaced and the call returns.
updateConfig(id, config) ==
    /\ started < MaxCalls
    /\ started' = started + 1
    /\ IF id \in DOMAIN connections
          THEN DisconnectBegin("detached", id)
          ELSE UNCHANGED calls
    /\ IF HasConfig(id)
          THEN /\ configs' = Put(configs, id, config)
               /\ version' = version + 1
               /\ returned' = Ret("updateConfig", id, "true", 0, FALSE, TRUE, FALSE)
          ELSE /\ returned' = Ret("updateConfig", id, "false", 0, FALSE, FALSE, FALSE)
               /\ UNCHANGED << configs, version >>
    /\ UNCHANGED << connections, connectionStatus, handles >>
    /\ UNCHANGED beyondManager

UnregisterKeepingStatus(id, h) ==
    /\ handles' = [handles EXCEPT ![h].open = FALSE]
    /\ connections' = Drop(connections, id)
    /\ UNCHANGED connectionStatus

\* connections.delete(connectionId); connectionStatus.set(connectionId, false)
Unregister(id, h) ==
    /\ handles' = [handles EXCEPT ![h].open = FALSE]
    /\ connections' = Drop(connections, id)
    /\ connectionStatus' = Put(connectionStatus, id, FALSE)

\* The driver has answered the close of a disconnect.  A failure is shown to
\* the user and swallowed; the registry is then left as it was.
disconnectDone(c) ==
    /\ c \in BagToSet(calls)
    /\ c.pc = "closing"
    /\ calls' = Resume(c)
    /\ \E ok \in BOOLEAN :
          /\ IF ok
                THEN Unregister(c.id, c.h)
                ELSE UNCHANGED << connections, connectionStatus, handles >>
          /\ IF c.op = "removeConfig"
                THEN RemoveStored(c.id, ~ ok, c.h)
                ELSE /\ returned' = Ret(c.op, c.id, "void", c.h, FALSE,
                                        HasConfig(c.id), ~ ok)
                     /\ UNCHANGED << configs, version >>
    /\ UNCHANGED started
    /\ UNCHANGED beyondManager

\* executeQuery(connectionId, query): the handle and the profile are looked
\* up, the query runs on the handle found.
DatabaseManager_executeQuery(id) ==
    /\ started < MaxCalls
    /\ started' = started + 1
    /\ IF id \in DOMAIN connections /\ HasConfig(id)
          THEN \E ok \in BOOLEAN :
                  returned' = Ret("executeQuery", id,
                                  IF ok THEN "rows" ELSE "queryError",
                                  connections[id], isConnected(id), TRUE, FALSE)
          ELSE returned' = Ret("executeQuery", id, "connectionNotFound", 0,
                               isConnected(id), HasConfig(id), FALSE)
    /\ UNCHANGED << configs, connections, connectionStatus, handles, calls, version >>
    /\ UNCHANGED beyondManager

NextManager ==
    \/ \E id \in ProfileIds : DatabaseManager_executeQuery(id)
    \/ \E id \in ProfileIds : connect(id)
    \/ \E id \in ProfileIds : ensureConnected(id)
    \/ \E id \in ProfileIds : disconnect(id)
    \/ \E id \in ProfileIds : removeConfig(id)
    \/ \E id \in ProfileIds : updateConfig(id, EditedProfile)
    \/ \E c \in BagToSet(calls) : connectDone(c)
    \/ \E c \in BagToSet(calls) : disconnectDone(c)

InitManager ==
    PreviewClosed /\ ManagerInit /\ StoreIdle /\ ServiceIdle /\ CommandIdle

SpecManager == InitManager /\ [][NextManager]_vars

\* ------------------------------------------------ properties of the manager
OpenHandlesOf(id, by) ==
    {h \in DOMAIN handles :
        handles[h].id = id /\ handles[h].by = by /\ handles[h].open}

\* C12: the ensureConnected calls for one profile id never leave two open
\* handles for that id: a call that finds a connect in flight waits for it
\* instead of opening a handle of its own.
C12_OneOpenHandlePerProfile ==
    \A id \in ProfileIds : Cardinality(OpenHandlesOf(id, "ensureConnected")) <= 1

\* C13: ensureConnected(id) returns true and opens nothing when id is
\* connected; otherwise it connects with the stored profile and, when it
\* returns true, its handle is registered under id and isConnected(id) holds;
\* without a stored profile it throws profile-not-found and opens nothing.
C13_EnsureConnectedContract ==
    returned.op = "ensureConnected" =>
        /\ returned.wasConnected => (returned.result = "true" /\ returned.h = 0)
        /\ (~ returned.wasConnected /\ returned.result = "true") =>
              /\ returned.h \in DOMAIN handles
              /\ handles[returned.h].open
              /\ handles[returned.h].id = returned.id
              /\ returned.id \in DOMAIN connections
              /\ connections[returned.id] = returned.h
              /\ isConnected(returned.id)
        /\ (~ returned.wasConnected /\ ~ returned.found) =>
              (returned.result = "profileNotFound" /\ returned.h = 0)
        /\ returned.result = "profileNotFound" => ~ returned.found

C13_Witness ==
    /\ returned.op = "ensureConnected"
    /\ returned.result = "true"
    /\ returned.h # 0
    /\ \E h \in DOMAIN handles : h # returned.h

\* C14: a handle opened since the last write to the stored profiles was
\* opened with the fields stored for its id, and no step of connect,
\* disconnect or ensureConnected changes a stored profile.
HandlesFollowStore ==
    \A h \in DOMAIN handles :
        (handles[h].ver = version /\ HasConfig(handles[h].id)) =>
            handles[h].args = DriverArgs(getConfig(handles[h].id))

C14_ReconnectUsesStoredProfile ==
    [][ /\ HandlesFollowStore'
        /\ configs' # configs =>
              (returned'.op \in {"updateConfig", "removeConfig"} /\ returned'.found)
      ]_vars

C14_Witness ==
    \E h1, h2 \in DOMAIN handles :
        /\ h1 < h2
        /\ handles[h1].id = handles[h2].id
        /\ handles[h1].by = "connect" /\ ~ handles[h1].open
        /\ handles[h2].by = "ensureConnected" /\ handles[h2].open
        /\ handles[h2].ver = version
        /\ handles[h2].args # handles[h1].args
        /\ returned.op = "ensureConnected" /\ returned.h = h2

MaxStoreOps == 3

\* The profiles addConfig is called with; the first two differ in the user
\* name only.
AddedProfiles ==
    { MySqlProfile, [MySqlProfile EXCEPT !.username = "v"], SqliteProfile }

\* `${type}-${host || filename || ''}-${database || ''}-${Date.now()}`
generateConnectionId(config, now) ==
    << config.type,
       IF config.host # "" THEN config.host ELSE config.filename,
       config.database,
       now >>

\* The profile file: a list of profiles under "configs" ("list"), no
\* "configs" field ("noField"), a "configs" field that holds a profile but
\* is not a list ("notList"), or text with a profile in it that JSON.parse
\* rejects ("corrupt").
ListFile(seq) == [kind |-> "list", configs |-> seq]
InitialFiles ==
    { ListFile(<< >>), ListFile(<< MySqlProfile >>),
      [kind |-> "noField", configs |-> << >>],
      [kind |-> "notList", configs |-> << MySqlProfile >>],
      [kind |-> "corrupt", configs |-> << MySqlProfile >>] }

\* The profiles written in the file, whatever its shape.
LoadedIdsOfAnyKind(f, now) ==
    [i \in 1 .. Len(f.configs) |-> generateConnectionId(f.configs[i], now)]

\* The ids loadConfigs gives to the entries of the file, all within one
\* reading of the clock.
LoadedIds(f, now) ==
    IF f.kind = "list"
       THEN [i \in 1 .. Len(f.configs) |-> generateConnectionId(f.configs[i], now)]
       ELSE << >>

\* Keys of the map after the forEach of loadConfigs, in insertion order.
LoadedOrder(f, now) ==
    LET ids == LoadedIds(f, now)
        F[n \in 0 .. Len(ids)] ==
            IF n = 0 THEN << >>
            ELSE IF \E j \in 1 .. (n - 1) : ids[j] = ids[n]
                    THEN F[n - 1] ELSE Append(F[n - 1], ids[n])
    IN  F[Len(ids)]

\* loadConfigs: configs.set(id, config) per entry, a later entry replacing an
\* earlier one with the same id; a file that cannot be used gives an empty map.
loadConfigs(f, now) ==
    LET ids == LoadedIds(f, now)
    IN  [id \in SeqToSet(ids) |->
            f.configs[CHOOSE i \in 1 .. Len(ids) :
                          /\ ids[i] = id
                          /\ \A j \in 1 .. Len(ids) : ids[j] = id => j <= i]]

\* Array.from(this.configs.values()), taken when saveConfigs is called.
SnapshotOf(cfgs, ord) == [i \in 1 .. Len(ord) |-> cfgs[ord[i]]]

\* saveConfigs: the write of the snapshot is started.
saveConfigs(cfgs, ord) == writes' = writes (+) SetToBag({SnapshotOf(cfgs, ord)})

\* The state after the constructor has run on some profile file.
StoreInit ==
    /\ \E f \in InitialFiles :
          /\ file = f
          /\ configs = loadConfigs(f, 0)
          /\ order = LoadedOrder(f, 0)
    /\ writes = EmptyBag
    /\ clock = 0
    /\ handed = EmptyMap
    /\ loads = 0
    /\ storeOps = 0

\* addConfig does not wait for the write it starts.
ConfigManager_addConfig(config) ==
    /\ storeOps < MaxStoreOps
    /\ storeOps' = storeOps + 1
    /\ \E now \in {clock, clock + 1} :
          LET id == generateConnectionId(config, now)
          IN  /\ clock' = now
              /\ configs' = Put(configs, id, config)
              /\ order' = IF HasConfig(id) THEN order ELSE Append(order, id)
              /\ handed' = Put(handed, id, config)
    /\ saveConfigs(configs', order')
    /\ UNCHANGED << file, loads >>
    /\ UNCHANGED beyondStore

KnownIds == (DOMAIN configs) \cup (DOMAIN handed)

ConfigManager_updateConfig(id, config) ==
    /\ storeOps < MaxStoreOps
    /\ storeOps' = storeOps + 1
    /\ IF HasConfig(id)
          THEN /\ configs' = Put(configs, id, config)
               /\ handed' = Put(handed, id, config)
               /\ saveConfigs(configs', order)
          ELSE UNCHANGED << configs, handed, writes >>
    /\ UNCHANGED << file, order, clock, loads >>
    /\ UNCHANGED beyondStore

ConfigManager_removeConfig(id) ==
    /\ storeOps < MaxStoreOps
    /\ storeOps' = storeOps + 1
    /\ IF HasConfig(id)
          THEN /\ configs' = Drop(configs, id)
               /\ order' = Without(order, id)
               /\ handed' = Drop(handed, id)
               /\ saveConfigs(configs', order')
          ELSE UNCHANGED << configs, order, handed, writes >>
    /\ UNCHANGED << file, clock, loads >>
    /\ UNCHANGED beyondStore

\* A writeFile call completes: the file holds its snapshot, or the write has
\* failed and the file is as before.
writeFileDone(w) ==
    /\ BagIn(w, writes)
    /\ writes' = writes (-) SetToBag({w})
    /\ \E ok \in BOOLEAN :
          file' = IF ok THEN ListFile(w) ELSE file
    /\ UNCHANGED << configs, order, clock, handed, loads, storeOps >>
    /\ UNCHANGED beyondStore

\* The extension is started again: a new store is constructed from the file.
constructAgain ==
    /\ writes = EmptyBag
    /\ storeOps < MaxStoreOps
    /\ storeOps' = storeOps + 1
    /\ loads' = loads + 1
    /\ clock' = clock + 1
    /\ configs' = loadConfigs(file, clock + 1)
    /\ order' = LoadedOrder(file, clock + 1)
    /\ UNCHANGED << file, writes, handed >>
    /\ UNCHANGED beyondStore

NextStore ==
    \/ \E config \in AddedProfiles : ConfigManager_addConfig(config)
    \/ \E id \in KnownIds : ConfigManager_updateConfig(id, EditedProfile)
    \/ \E id \in KnownIds : ConfigManager_removeConfig(id)
    \/ \E w \in BagToSet(writes) : writeFileDone(w)
    \/ constructAgain

InitStore ==
    PreviewClosed /\ RegistryIdle /\ StoreInit /\ ServiceIdle /\ CommandIdle

SpecStore == InitStore /\ [][NextStore]_vars

\* The file holds every profile the store has handed an id for.
Persisted ==
    /\ writes = EmptyBag
    /\ file.kind = "list"
    /\ \A id \in DOMAIN handed :
          \E i \in 1 .. Len(file.configs) : file.configs[i] = handed[id]

\* C15: once the store is persisted and constructed again from the file,
\* every identifier addConfig has returned still resolves to its profile.
C15_IdentifierStableAcrossReload ==
    (loads > 0 /\ Persisted) =>
        \A id \in DOMAIN handed : HasConfig(id) /\ getConfig(id) = handed[id]

\* -------------------------------------------------------- DatabaseServiceImpl
MaxServiceOps == 3

maxRetries == 3
retryDelay == 1000

\* DatabaseServiceImpl.generateConnectionId
serviceConnectionId(config) ==
    CASE config.type = "sqlite" -> << "sqlite", config.filename >>
      [] config.type = "mongodb" ->
            << "mongodb", config.host, config.port, config.database >>
      [] config.type = "oracle" ->
            IF config.connectionString # ""
               THEN << "oracle", config.connectionString >>
               ELSE << "oracle", config.host, config.port,
                       IF config.sid # "" THEN config.sid ELSE config.serviceName >>
      [] OTHER -> << config.type, config.host, config.port, config.database >>

\* The checks inside the try block of an attempt: MySQL and SQLite profiles
\* are handed to the driver unchecked.
ServiceCheck(config) ==
    CASE config.type \in {"mysql", "sqlite"} -> "ok"
      [] config.type \in {"mongodb", "oracle"} -> ConfigCheck(config)
      [] OTHER -> "unsupportedType"

ServiceRet(op, id, cfg, res, attempts, io, delays) ==
    [op |-> op, id |-> id, cfg |-> cfg, result |-> res, attempts |-> attempts,
     io |-> io, delays |-> delays]

\* connections.set(connectionId, connection); return true
AttemptSucceeded(cfg, k, io, delays) ==
    /\ svcConnections' = Put(svcConnections, serviceConnectionId(cfg), DriverArgs(cfg))
    /\ svcCall' = NoServiceCall
    /\ svcLast' = ServiceRet("connect", serviceConnectionId(cfg), cfg, "true",
                             k, io, delays)

AttemptFailedOnceMore(cfg, k, io, delays) ==
    IF k = maxRetries + 1
       THEN /\ svcCall' = NoServiceCall
            /\ svcLast' = ServiceRet("connect", serviceConnectionId(cfg), cfg,
                                     "false", k, io, delays)
            /\ UNCHANGED svcConnections
       ELSE /\ svcCall' = [pc |-> "sleeping", cfg |-> cfg, attempt |-> k,
                           io |-> io, delays |-> Append(delays, retryDelay)]
            /\ UNCHANGED << svcConnections, svcLast >>

\* The catch block of an attempt: give up after the last attempt, else warn
\* and sleep.
AttemptFailed(cfg, k, io, delays) ==
    IF k = maxRetries
       THEN /\ svcCall' = NoServiceCall
            /\ svcLast' = ServiceRet("connect", serviceConnectionId(cfg), cfg,
                                     "false", k, io, delays)
            /\ UNCHANGED svcConnections
       ELSE /\ svcCall' = [pc |-> "sleeping", cfg |-> cfg, attempt |-> k,
                           io |-> io, delays |-> Append(delays, retryDelay)]
            /\ UNCHANGED << svcConnections, svcLast >>

\* Attempt k up to its await.  new sqlite3.Database(..) answers at once; with
\* no file name its argument check throws before any file is touched.
AttemptBegin(cfg, k, io, delays) ==
    IF ServiceCheck(cfg) # "ok"
       THEN AttemptFailed(cfg, k, io, delays)
       ELSE IF cfg.type = "sqlite"
               THEN IF cfg.filename # ""
                       THEN AttemptSucceeded(cfg, k, io + 1, delays)
                       ELSE AttemptFailed(cfg, k, io, delays)
               ELSE /\ svcCall' = [pc |-> "driver", cfg |-> cfg, attempt |-> k,
                                   io |-> io + 1, delays |-> delays]
                    /\ UNCHANGED << svcConnections, svcLast >>

DatabaseServiceImpl_connect(config) ==
    /\ svcCall.pc = "idle"
    /\ svcOps < MaxServiceOps
    /\ svcOps' = svcOps + 1
    /\ AttemptBegin(config, 1, 0, << >>)
    /\ UNCHANGED transactionConnections
    /\ UNCHANGED beyondService

\* The driver has answered the open of the current attempt.
driverAnswered ==
    /\ svcCall.pc = "driver"
    /\ \E ok \in BOOLEAN :
          IF ok THEN AttemptSucceeded(svcCall.cfg, svcCall.attempt, svcCall.io,
                                      svcCall.delays)
                ELSE AttemptFailed(svcCall.cfg, svcCall.attempt, svcCall.io,
                                   svcCall.delays)
    /\ UNCHANGED << transactionConnections, svcOps >>
    /\ UNCHANGED beyondService

\* setTimeout(resolve, retryDelay) has fired: the loop goes on.
delayElapsed ==
    /\ svcCall.pc = "sleeping"
    /\ AttemptBegin(svcCall.cfg, svcCall.attempt + 1, svcCall.io, svcCall.delays)
    /\ UNCHANGED << transactionConnections, svcOps >>
    /\ UNCHANGED beyondService

\* The ids a caller of the service may use: those it holds and one it does not.
UnknownId == << "unknown" >>
ServiceIds == (DOMAIN svcConnections) \cup transactionConnections \cup {UnknownId}

\* One driver call, or none when the call throws before it.
Once(op, id, res, io) == svcLast' = ServiceRet(op, id, BlankConfig, res, 1, io, << >>)

DatabaseServiceImpl_disconnect(id) ==
    /\ svcOps < MaxServiceOps
    /\ svcOps' = svcOps + 1
    /\ IF id \notin DOMAIN svcConnections
          THEN /\ Once("disconnect", id, "void", 0)
               /\ UNCHANGED svcConnections
          ELSE \E ok \in BOOLEAN :
                  /\ Once("disconnect", id, "void", 1)
                  /\ svcConnections' = IF ok THEN Drop(svcConnections, id)
                                             ELSE svcConnections
    /\ UNCHANGED << transactionConnections, svcCall >>
    /\ UNCHANGED beyondService

DatabaseServiceImpl_executeQuery(id) ==
    /\ svcOps < MaxServiceOps
    /\ svcOps' = svcOps + 1
    /\ IF id \notin DOMAIN svcConnections
          THEN Once("executeQuery", id, "connectionNotFound", 0)
          ELSE \E ok \in BOOLEAN :
                  Once("executeQuery", id, IF ok THEN "rows" ELSE "queryFailed", 1)
    /\ UNCHANGED << svcConnections, transactionConnections, svcCall >>
    /\ UNCHANGED beyondService

beginTransaction(id) ==
    /\ svcOps < MaxServiceOps
    /\ svcOps' = svcOps + 1
    /\ IF id \notin DOMAIN svcConnections
          THEN /\ Once("beginTransaction", id, "connectionNotFound", 0)
               /\ UNCHANGED transactionConnections
          ELSE \E ok \in BOOLEAN :
                  /\ Once("beginTransaction", id, IF ok THEN "void" ELSE "beginFailed", 1)
                  /\ transactionConnections' =
                        IF ok THEN transactionConnections \cup {id}
                              ELSE transactionConnections
    /\ UNCHANGED << svcConnections, svcCall >>
    /\ UNCHANGED beyondService

\* commitTransaction and rollbackTransaction have the same shape.
EndTransaction(op, id) ==
    /\ svcOps < MaxServiceOps
    /\ svcOps' = svcOps + 1
    /\ IF id \notin transactionConnections
          THEN /\ Once(op, id, "noActiveTransaction", 0)
               /\ UNCHANGED transactionConnections
          ELSE \E ok \in BOOLEAN :
                  /\ Once(op, id, IF ok THEN "void" ELSE "endFailed", 1)
                  /\ transactionConnections' =
                        IF ok THEN transactionConnections \ {id}
                              ELSE transactionConnections
    /\ UNCHANGED << svcConnections, svcCall >>
    /\ UNCHANGED beyondService

commitTransaction(id) == EndTransaction("commitTransaction", id)
rollbackTransaction(id) == EndTransaction("rollbackTransaction", id)

NextService ==
    \/ \E config \in Profiles : DatabaseServiceImpl_connect(config)
    \/ driverAnswered
    \/ delayElapsed
    \/ \E id \in ServiceIds : DatabaseServiceImpl_disconnect(id)
    \/ \E id \in ServiceIds : DatabaseServiceImpl_executeQuery(id)
    \/ \E id \in ServiceIds : beginTransaction(id)
    \/ \E id \in ServiceIds : commitTransaction(id)
    \/ \E id \in ServiceIds : rollbackTransaction(id)

InitService ==
    PreviewClosed /\ ManagerIdle /\ StoreIdle /\ ServiceIdle /\ CommandIdle

SpecService == InitService /\ [][NextService]_vars

\* The delays of a connect that made k attempts: retryDelay between any two.
FixedDelays(k) == [i \in 1 .. (k - 1) |-> retryDelay]

\* C17: connect makes at most maxRetries attempts with retryDelay between
\* them, returns true at the first attempt that succeeds and false after the
\* last one has failed; every other operation of the service runs once, with
\* at most one driver call.
C17_ConnectRetriesBounded ==
    /\ svcCall.attempt <= maxRetries
    /\ svcLast.op = "connect" =>
          /\ svcLast.attempts \in 1 .. maxRetries
          /\ svcLast.delays = FixedDelays(svcLast.attempts)
          /\ svcLast.io <= svcLast.attempts
          /\ svcLast.result \in {"true", "false"}
          /\ svcLast.result = "false" => svcLast.attempts = maxRetries
          /\ svcLast.result = "true" => svcLast.id \in DOMAIN svcConnections
    /\ svcLast.op \notin {"connect", "none"} =>
          (svcLast.attempts = 1 /\ svcLast.io <= 1 /\ svcLast.delays = << >>)

C17_Witness ==
    /\ svcLast.op = "connect"
    /\ svcLast.result = "true"
    /\ svcLast.attempts = maxRetries
    /\ svcLast.io = maxRetries
    /\ svcLast.id \in DOMAIN svcConnections

\* C18: connect with a profile that lacks a field its type requires throws a
\* configuration-incomplete error at once: no driver call is made, nothing
\* is registered, there is no second attempt.
C18_IncompleteProfileFailsBeforeIO ==
    (svcLast.op = "connect" /\ ConfigCheck(svcLast.cfg) = "configIncomplete") =>
        /\ svcLast.result = "configIncomplete"
        /\ svcLast.io = 0
        /\ svcLast.attempts = 1
        /\ svcLast.id \notin DOMAIN svcConnections

\* ------------------------------------- executeQuery on a MongoDB connection
\* A command text is a sequence of lexical pieces (names, punctuation, white
\* space, key-value pairs of a JSON object); the text is their concatenation.
Whitespace == {" ", "\n"}
IsWs(p) == p \in Whitespace

\* The alternatives of the command pattern, in its order.
supportedOperations ==
    << "find", "insertOne", "insertMany", "updateOne", "updateMany",
       "deleteOne", "deleteMany" >>
OperationNames == SeqToSet(supportedOperations)

\* Lower case of a piece, for the case-insensitive pattern.
Lower(p) ==
    CASE p = "FIND" -> "find"
      [] p = "DB" -> "db"
      [] OTHER -> p

\* Key-value pairs that are valid inside a JSON object; any other piece
\* between braces is not JSON.
KeyValues == {"a:1", "b:2", "$set:{a:2}"}

IndexFrom(ts, p, from) ==
    IF \E j \in from .. Len(ts) : ts[j] = p
       THEN CHOOSE j \in from .. Len(ts) :
                ts[j] = p /\ \A k \in from .. (j - 1) : ts[k] # p
       ELSE 0

LastIndex(ts, p) ==
    IF \E j \in 1 .. Len(ts) : ts[j] = p
       THEN CHOOSE j \in 1 .. Len(ts) :
                ts[j] = p /\ \A k \in (j + 1) .. Len(ts) : ts[k] # p
       ELSE 0

\* String.prototype.trim
Trim(ts) ==
    IF \A j \in 1 .. Len(ts) : IsWs(ts[j]) THEN << >>
    ELSE LET a == CHOOSE j \in 1 .. Len(ts) :
                      ~ IsWs(ts[j]) /\ \A k \in 1 .. (j - 1) : IsWs(ts[k])
             b == CHOOSE j \in 1 .. Len(ts) :
                      ~ IsWs(ts[j]) /\ \A k \in (j + 1) .. Len(ts) : IsWs(ts[k])
         IN  SubSeq(ts, a, b)

\* replace(/\s+/g, ' ')
CollapseWs(ts) ==
    LET F[n \in 0 .. Len(ts)] ==
            IF n = 0 THEN << >>
            ELSE IF IsWs(ts[n])
                    THEN IF n > 1 /\ IsWs(ts[n - 1]) THEN F[n - 1]
                         ELSE Append(F[n - 1], " ")
                    ELSE Append(F[n - 1], ts[n])
    IN  F[Len(ts)]

cleanQuery(q) == CollapseWs(Trim(q))

NoMatch == [found |-> FALSE, collection |-> << >>, operation |-> ""]

\* /db\.([^\.]+)\.(find|insertOne|...)/i tried at piece i: "db.", then
\* everything up to the next dot, then a supported name right after that dot.
MatchAt(c, i) ==
    LET k == IndexFrom(c, ".", i + 2)
    IN  /\ i + 1 <= Len(c)
        /\ Lower(c[i]) = "db"
        /\ c[i + 1] = "."
        /\ k > i + 2
        /\ k + 1 <= Len(c)
        /\ Lower(c[k + 1]) \in OperationNames

\* cleanQuery.match(...): the leftmost match, anywhere in the text.
collectionMatch(c) ==
    IF \E i \in 1 .. Len(c) : MatchAt(c, i)
       THEN LET i == CHOOSE i \in 1 .. Len(c) :
                         MatchAt(c, i) /\ \A j \in 1 .. (i - 1) : ~ MatchAt(c, j)
                k == IndexFrom(c, ".", i + 2)
            IN  [found |-> TRUE, collection |-> SubSeq(c, i + 2, k - 1),
                 operation |-> c[k + 1]]
       ELSE NoMatch

\* The parse by hand that is tried when the pattern does not match.
ManualMatch(c) ==
    IF Len(c) >= 2 /\ c[1] = "db" /\ c[2] = "."
       THEN LET afterPrefix == SubSeq(c, 3, Len(c))
                dotIndex == IndexFrom(afterPrefix, ".", 1)
                afterCollection == SubSeq(afterPrefix, dotIndex + 1, Len(afterPrefix))
                operationEndIndex == IndexFrom(afterCollection, "(", 1)
            IN  IF /\ dotIndex > 1
                   /\ operationEndIndex = 2
                   /\ afterCollection[1] \in OperationNames
                   THEN [found |-> TRUE,
                         collection |-> SubSeq(afterPrefix, 1, dotIndex - 1),
                         operation |-> afterCollection[1]]
                   ELSE NoMatch
       ELSE NoMatch

\* ---- JSON.parse on the argument text
\* Parsed values: an object is the set of its key-value pairs, an array the
\* sequence of its objects.
JObject(kv) == [t |-> "object", kv |-> kv, items |-> << >>]
JArray(items) == [t |-> "array", kv |-> {}, items |-> items]
SyntaxError == [t |-> "SyntaxError", kv |-> {}, items |-> << >>]
EmptyObject == JObject({})
EmptyArray == JArray(<< >>)

\* White space between JSON tokens is insignificant.
Significant(ts) == SelectSeq(ts, LAMBDA p : ~ IsWs(p))

\* "{" pair ("," pair)* "}" or "{" "}"
ParseObject(ts) ==
    LET n == Len(ts)
    IN  IF /\ n >= 2
           /\ ts[1] = "{"
           /\ ts[n] = "}"
           /\ (n = 2 \/ (n - 2) % 2 = 1)
           /\ \A j \in 2 .. (n - 1) :
                  IF j % 2 = 0 THEN ts[j] \in KeyValues ELSE ts[j] = ","
           THEN JObject({ts[j] : j \in {k \in 2 .. (n - 1) : k % 2 = 0}})
           ELSE SyntaxError

\* The elements of an array body: objects separated by commas.
RECURSIVE ParseElements(_)
ParseElements(ts) ==
    LET j == IndexFrom(ts, "}", 1)
        first == ParseObject(SubSeq(ts, 1, j))
    IN  IF j = 0 \/ first = SyntaxError THEN << SyntaxError >>
        ELSE IF j = Len(ts) THEN << first >>
        ELSE IF ts[j + 1] # "," \/ j + 1 = Len(ts) THEN << SyntaxError >>
        ELSE << first >> \o ParseElements(SubSeq(ts, j + 2, Len(ts)))

ParseArray(ts) ==
    LET n == Len(ts)
        items == IF n > 2 THEN ParseElements(SubSeq(ts, 2, n - 1)) ELSE << >>
    IN  IF n >= 2 /\ ts[1] = "[" /\ ts[n] = "]"
           /\ \A j \in 1 .. Len(items) : items[j] # SyntaxError
           THEN JArray(items)
           ELSE SyntaxError

JSON_parse(text) ==
    LET ts == Significant(text)
    IN  IF ts # << >> /\ ts[1] = "[" THEN ParseArray(ts) ELSE ParseObject(ts)

\* ---- the argument list
\* Position of the first "},{" in the text, 0 when there is none.
SeparatorIndex(ts) ==
    IF \E j \in 1 .. (Len(ts) - 2) : ts[j] = "}" /\ ts[j + 1] = "," /\ ts[j + 2] = "{"
       THEN CHOOSE j \in 1 .. (Len(ts) - 2) :
                /\ ts[j] = "}" /\ ts[j + 1] = "," /\ ts[j + 2] = "{"
                /\ \A k \in 1 .. (j - 1) :
                       ~ (ts[k] = "}" /\ ts[k + 1] = "," /\ ts[k + 2] = "{")
       ELSE 0

\* paramsStr.split('},{'): the first two parts.
SplitParts(ts) ==
    LET m == SeparatorIndex(ts)
        rest == SubSeq(ts, m + 3, Len(ts))
        m2 == SeparatorIndex(rest)
    IN  << SubSeq(ts, 1, m - 1),
           IF m2 = 0 THEN rest ELSE SubSeq(rest, 1, m2 - 1) >>

\* The text between the first "(" after the operation name and the last ")".
paramsStr(c, operation) ==
    LET parenIndex == IndexFrom(c, "(", IndexFrom(c, operation, 1))
        endIndex == LastIndex(c, ")")
    IN  IF parenIndex > 0 /\ endIndex > parenIndex + 1
           THEN [found |-> TRUE, text |-> Trim(SubSeq(c, parenIndex + 1, endIndex - 1))]
           ELSE [found |-> FALSE, text |-> << >>]

\* The parameter list built from the argument text.
ParseParams(c, operation) ==
    LET ps == paramsStr(c, operation)
        str == ps.text
    IN  IF ~ ps.found \/ str = << >> THEN << EmptyObject >>
        ELSE IF str[1] # "[" /\ SeparatorIndex(str) = 0
           THEN IF JSON_parse(str) = SyntaxError THEN << EmptyObject >>
                ELSE << JSON_parse(str) >>
        ELSE IF SeparatorIndex(str) # 0
           THEN LET parts == SplitParts(str)
                    a == JSON_parse(Append(parts[1], "}"))
                    b == JSON_parse(<< "{" >> \o parts[2])
                IN  IF a = SyntaxError \/ b = SyntaxError
                       THEN << EmptyObject, EmptyObject >>
                       ELSE << a, b >>
        ELSE IF JSON_parse(str) = SyntaxError THEN << EmptyArray >>
             ELSE << JSON_parse(str) >>

\* ---- dispatch
NativeCall(collection, operation, args) ==
    [collection |-> collection, op |-> operation, args |-> args]

\* params[i] || fallback
ParamOr(params, i, fallback) == IF i <= Len(params) THEN params[i] ELSE fallback

\* The arguments the switch hands to the driver for a supported operation.
NativeArgs(operation, params) ==
    CASE operation \in {"find", "updateOne", "updateMany"} ->
             << ParamOr(params, 1, EmptyObject), ParamOr(params, 2, EmptyObject) >>
      [] operation = "insertMany" -> << ParamOr(params, 1, EmptyArray) >>
      [] OTHER -> << ParamOr(params, 1, EmptyObject) >>

\* executeQuery(connectionId, query) on a connected MongoDB profile.
executeQuery ==
    /\ cmdResult = "pending"
    /\ LET c == cleanQuery(query)
           byPattern == collectionMatch(c)
           m == IF byPattern.found THEN byPattern ELSE ManualMatch(c)
       IN  IF ~ m.found
              THEN /\ native' = native
                   /\ cmdResult' = "invalidQuery"
           ELSE IF m.operation \notin OperationNames
              THEN /\ native' = native
                   /\ cmdResult' = "unsupportedOperation"
           ELSE /\ native' = Append(native,
                        NativeCall(m.collection, m.operation,
                                   NativeArgs(m.operation, ParseParams(c, m.operation))))
                /\ \E ok \in BOOLEAN :
                       cmdResult' = IF ok THEN "returned" ELSE "driverError"
    /\ UNCHANGED << query >>
    /\ UNCHANGED beyondCommand

\* ---- the commands tried
Leads == { << >>, << "\n", " " >>, << "x" >> }
Collections == { << "users" >>, << "find" >>, << "a", ".", "b" >> }
OperationTexts ==
    { << o >> : o \in OperationNames } \cup
    { << "find", "One" >>, << "FIND" >>, << "count" >>, << "updateOne", " " >> }
ArgumentTexts ==
    { << >>,
      << "{", "}" >>,
      << " ", "{", "a:1", "}", " " >>,
      << "{", "bad", "}" >>,
      << "bad" >>,
      << "{", "a:1", "}", ",", "{", "$set:{a:2}", "}" >>,
      << "{", "a:1", "}", ",", " ", "{", "$set:{a:2}", "}" >>,
      << "{", "a:1", "}", ",", "{", "bad", "}" >>,
      << "[", "{", "a:1", "}", "]" >>,
      << "[", "{", "a:1", "}", ",", "{", "b:2", "}", "]" >>,
      << "[", "{", "a:1", "}", ",", " ", "{", "b:2", "}", "]" >>,
      << "[", "bad", "]" >>,
      << "[", "{", "a:1", "}", ",", "{", "bad", "}", "]" >> }
Trails == { << >>, << " " >>, << ";" >> }

Queries ==
    { lead \o << "db", "." >> \o coll \o << "." >> \o op \o << "(" >> \o arg \o << ")" >> \o trail :
        lead \in Leads, coll \in Collections, op \in OperationTexts,
        arg \in ArgumentTexts, trail \in Trails }
    \cup { << "db", ".", "users", ".", o >> : o \in OperationNames }
    \cup { << "show", " ", "collections" >>, << "db", ".", "users" >>, << >> }

NextCommand == executeQuery

InitCommand ==
    /\ PreviewClosed /\ ManagerIdle /\ StoreIdle /\ ServiceIdle
    /\ query \in Queries
    /\ native = << >>
    /\ cmdResult = "pending"

SpecCommand == InitCommand /\ [][NextCommand]_vars

\* ---- properties of command execution
Punctuation == {".", "(", ")", "{", "}", "[", "]", ",", ";"}
IsName(p) == ~ IsWs(p) /\ p \notin Punctuation

\* db.<collection>.<op>(...) with nothing but white space around it.
DocumentedForm(q) ==
    LET c == Trim(q)
    IN  /\ Len(c) >= 7
        /\ c[1] = "db" /\ c[2] = "."
        /\ IsName(c[3])
        /\ c[4] = "."
        /\ c[5] \in OperationNames
        /\ c[6] = "("
        /\ c[Len(c)] = ")"

\* The same with white space before the parenthesis or a semicolon at the
\* end, which a reader may or may not count as "of this form".
LooseForm(q) ==
    LET c == SelectSeq(q, LAMBDA p : ~ IsWs(p) /\ p # ";")
    IN  DocumentedForm(c)

\* The text between the parentheses of a command of the documented form.
ArgumentText(q) == LET c == Trim(q) IN Trim(SubSeq(c, 7, Len(c) - 1))

Raised == {"invalidQuery", "unsupportedOperation"}

\* An argument list as documented: one JSON value, or two objects separated
\* by a comma.
ValidArguments(text) ==
    \/ JSON_parse(text) # SyntaxError
    \/ \E j \in 1 .. Len(text) :
           /\ text[j] = ","
           /\ ParseObject(Significant(SubSeq(text, 1, j - 1))) # SyntaxError
           /\ ParseObject(Significant(SubSeq(text, j + 1, Len(text)))) # SyntaxError

\* C19: when the operation is recognised and the argument text is not valid
\* JSON, executeQuery raises no parse error and still dispatches the
\* operation, once, with an empty argument: {} when the text is an object,
\* [] when the text is an array.
C19_MalformedArgumentFallsBackToEmpty ==
    (/\ cmdResult # "pending"
     /\ DocumentedForm(query)
     /\ ArgumentText(query) # << >>
     /\ ~ ValidArguments(ArgumentText(query))) =>
        /\ cmdResult \notin Raised
        /\ Len(native) = 1
        /\ native[1].op = Trim(query)[5]
        /\ native[1].args[1] =
               IF ArgumentText(query)[1] = "[" THEN EmptyArray ELSE EmptyObject

\* C20: a command of the form db.<collection>.<op>(...) with a supported op
\* invokes exactly that native operation on exactly that collection, once;
\* a command not of this form raises an error and invokes nothing.
C20_DispatchExactlyDocumentedForm ==
    cmdResult # "pending" =>
        /\ DocumentedForm(query) =>
               /\ Len(native) = 1
               /\ native[1].collection = << Trim(query)[3] >>
               /\ native[1].op = Trim(query)[5]
        /\ ~ LooseForm(query) =>
               /\ native = << >>
               /\ cmdResult \in Raised

\* ------------------------------------------ the text of generated literals
\* value.replace(/'/g, "''") on the texts of the model: only O'Neil holds a
\* single quote.
Doubled(s) == IF s = "O'Neil" THEN "O''Neil" ELSE s

\* The characters a literal contributes to the statement text.
Render(l) ==
    IF l.form = "quoted"
       THEN "'" \o (IF l.esc THEN Doubled(l.text) ELSE l.text) \o "'"
       ELSE l.text

\* Tables whose string values hold a single quote, with a textual key, with
\* a numeric key and without key.
QuotedScenarios ==
    { [backend |-> "sql", pks |-> {"id", "name"},
       rows |-> << MkRow("sql", JsNum("1"), JsStr("O'Neil"), JsNull),
                   MkRow("sql", JsNum("3"), JsStr("b"), JsStr("x")) >>],
      [backend |-> "sql", pks |-> {},
       rows |-> << MkRow("sql", JsNum("1"), JsStr("O'Neil"), JsNull) >>] }

InitQuoted ==
    PreviewOpened(QuotedScenarios) /\ ManagerIdle /\ StoreIdle /\ ServiceIdle /\ CommandIdle

SpecQuoted == InitQuoted /\ [][Next]_vars

\* The literals embedded in a statement.
LiteralsOf(st) ==
    {st.where[c].lit : c \in {d \in DOMAIN st.where : ~ st.where[d].isnull}}
        \cup {st.set[c] : c \in DOMAIN st.set}

IsSqlWrite(st) == st.op \in {"DELETE", "UPDATE", "INSERT"}

\* C21: in every DELETE, UPDATE and INSERT the save handler issues, a string
\* literal is the text between single quotes with its single quotes doubled,
\* and a NULL is the unquoted keyword.
C21_LiteralsEscaped ==
    \A i \in LogIndex : IsSqlWrite(log[i]) =>
        \A l \in LiteralsOf(log[i]) :
            /\ l.form = "quoted" => Render(l) = "'" \o Doubled(l.text) \o "'"
            /\ LitIsNull(l) => Render(l) \in {"NULL", "null"}

\* ------------------------- the older variant of the table preview (part_000)
RowIdColumn == "__rowid"

OlderScenarios ==
    { [backend |-> "sql", pks |-> {},
       rows |-> << MkRow("sql", JsNum("1"), JsStr("a"), JsStr("x")),
                   MkRow("sql", JsNum("3"), JsStr("b"), JsNull),
                   MkRow("sql", JsNum("7"), JsStr("b"), JsStr("y")) >>],
      [backend |-> "sql", pks |-> {"id"},
       rows |-> << MkRow("sql", JsNum("1"), JsStr("a"), JsStr("x")),
                   MkRow("sql", JsNum("3"), JsStr("b"), JsNull) >>] }

\* data-row-id: row.__rowid || rowIndex; the fetch of a table without key
\* numbers the rows from 1 in the column __rowid.
DataRowId(rowIndex) == IF primaryKeys = {} THEN rowIndex + 1 ELSE rowIndex

\* document.querySelector('tr[data-row-index="' + i + '"]') finds a row
RowExists(i) == i \in DOMAIN grid

\* getRowIdentifier(row), read from the cells of the grid.
getRowIdentifier(rowIndex) ==
    IF primaryKeys # {}
       THEN [c \in primaryKeys |->
                IF grid[rowIndex][c] = "NULL" THEN JsStr("") ELSE JsStr(grid[rowIndex][c])]
       ELSE [c \in Columns \cup {RowIdColumn} |->
                IF c = RowIdColumn THEN JsStr(ToString(DataRowId(rowIndex)))
                ELSE IF grid[rowIndex][c] = "NULL" THEN JsNull
                ELSE JsStr(grid[rowIndex][c])]

OlderRequired(c) == columnsMetadata[c].isPrimaryKey \/ columnsMetadata[c].notNull

\* data-original-value of a cell
OriginalValue(rowIndex, c) ==
    IF result[rowIndex + 1][c].k = "null" THEN "" ELSE result[rowIndex + 1][c].s

OlderInputs == {"", "b"}

olderFinishEditing(rowIndex, column, newValue) ==
    /\ pc = "idle" /\ saves = 0
    /\ steps < MaxSteps
    /\ RowExists(rowIndex) /\ rowIndex \notin hidden
    /\ ~ (OlderRequired(column) /\ newValue \in {"", "NULL"})
    /\ steps' = steps + 1
    /\ grid' = [grid EXCEPT ![rowIndex][column] =
                   IF OlderRequired(column) \/ newValue # "" THEN newValue ELSE "NULL"]
    /\ modifiedData' =
          IF newValue # OriginalValue(rowIndex, column)
             THEN LET old == IF rowIndex \in DOMAIN modifiedData
                                THEN modifiedData[rowIndex] ELSE EmptyMap
                      v == IF OlderRequired(column) THEN JsStr(newValue)
                           ELSE IF newValue \in {"NULL", ""} THEN JsNull
                           ELSE JsStr(newValue)
                  IN  Put(modifiedData, rowIndex, Put(old, column, v))
             ELSE modifiedData
    /\ UNCHANGED << hidden, newRowEls, deletedRows, newRows, nextNew >>
    /\ UNCHANGED cycleVars
    /\ UNCHANGED << backend, primaryKeys, db, result, externals >>
    /\ UNCHANGED beyondPreview

\* deleteRow(rowIndex) on a fetched row: the marker is the row's data-row-id.
olderDeleteRow(rowIndex) ==
    /\ pc = "idle" /\ saves = 0
    /\ steps < MaxSteps
    /\ RowExists(rowIndex) /\ rowIndex \notin hidden
    /\ steps' = steps + 1
    /\ hidden' = hidden \cup {rowIndex}
    /\ deletedRows' = IF DataRowId(rowIndex) \in SeqToSet(deletedRows) THEN deletedRows
                      ELSE Append(deletedRows, DataRowId(rowIndex))
    /\ UNCHANGED << grid, newRowEls, modifiedData, newRows, nextNew >>
    /\ UNCHANGED cycleVars
    /\ UNCHANGED << backend, primaryKeys, db, result, externals >>
    /\ UNCHANGED beyondPreview

\* validateData(updateData): every key or not-null column has a value.
OlderValid(data) ==
    \A c \in Columns : OlderRequired(c) =>
        (c \in DOMAIN data /\ data[c].k # "null" /\ data[c].s \notin {"", "NULL"})

\* The changes object the webview posts.
OlderChanges ==
    LET upd == SelectSeq(SortedSeq(DOMAIN modifiedData), RowExists)
        del == SelectSeq(deletedRows, RowExists)
    IN  [updates |-> [i \in 1 .. Len(upd) |->
                         [ref |-> upd[i],
                          primaryKeyData |-> getRowIdentifier(upd[i]),
                          updateData |-> modifiedData[upd[i]]]],
         deletes |-> [i \in 1 .. Len(del) |->
                         [ref |-> del[i],
                          primaryKeyData |-> getRowIdentifier(del[i])]]]

\* saveChanges() of the webview.
olderSaveChanges ==
    /\ pc = "idle" /\ saves = 0
    /\ DOMAIN modifiedData # {} \/ deletedRows # << >>
    /\ saves' = saves + 1
    /\ IF \E r \in DOMAIN modifiedData : ~ OlderValid(modifiedData[r])
          THEN /\ outcome' = << "validationError" >>
               /\ UNCHANGED << pc, msg >>
          ELSE /\ msg' = OlderChanges
               /\ pc' = "posted"
               /\ outcome' = << >>
    /\ UNCHANGED << originalData, plan, log, dbAtSave, snapshot, batch >>
    /\ UNCHANGED uiVars
    /\ UNCHANGED << backend, primaryKeys, db, result, externals >>
    /\ UNCHANGED beyondPreview

\* WHERE of a DELETE: every entry of primaryKeyData
OlderDeleteWhere(primaryKeyData) ==
    [c \in DOMAIN primaryKeyData |->
        IF IsEmptyValue(primaryKeyData[c]) THEN IsNullCond
        ELSE EqCond(Literal(primaryKeyData[c], FALSE))]

\* SET of an UPDATE: the entries of updateData
OlderUpdateSet(updateData, pks) ==
    [c \in DOMAIN updateData |->
        IF c \in pks THEN Literal(updateData[c], FALSE)
        ELSE IF updateData[c].k = "null" THEN NullKeyword
        ELSE Literal(updateData[c], FALSE)]

OlderPlan(changes, pks) ==
    MapSeq(changes.deletes,
           LAMBDA d : Stmt("DELETE", OlderDeleteWhere(d.primaryKeyData), EmptyMap,
                           d.ref, d.ref))
      \o MapSeq(changes.updates,
                LAMBDA u : Stmt("UPDATE", UpdateWhere(u.primaryKeyData, pks),
                                OlderUpdateSet(u.updateData, pks), u.ref, u.ref))

\* case 'saveChanges' of the handler: the statements to issue.
olderReceive ==
    /\ pc = "posted"
    /\ plan' = SelectSeq(OlderPlan(msg, primaryKeys),
                         LAMBDA st : st.op # "DELETE" \/ DOMAIN st.where # {})
    /\ dbAtSave' = db
    /\ pc' = "executing"
    /\ UNCHANGED << msg, originalData, log, outcome, snapshot, batch, saves >>
    /\ UNCHANGED uiVars
    /\ UNCHANGED << backend, primaryKeys, db, result, externals >>
    /\ UNCHANGED beyondPreview

\* The table has every column the statement names.
KnownColumns(st) == (DOMAIN st.where \cup DOMAIN st.set) \subseteq Columns

\* executeQuery of the next statement; after the last one saveSuccess and
\* the refreshed rows.
olderExecStatement ==
    /\ pc = "executing"
    /\ IF plan = << >>
          THEN /\ outcome' = << "saveSuccess", "updateData" >>
               /\ result' = FetchRows(db)
               /\ pc' = "idle"
               /\ UNCHANGED << db, plan, log >>
          ELSE /\ log' = Append(log, Head(plan))
               /\ \E ok \in BOOLEAN :
                     IF /\ ok
                        /\ KnownColumns(Head(plan))
                        /\ SqlAccepts(Head(plan), db, backend, primaryKeys)
                        THEN /\ db' = SqlApply(Head(plan), db, backend, primaryKeys)
                             /\ plan' = Tail(plan)
                             /\ UNCHANGED << pc, outcome >>
                        ELSE /\ outcome' = << "error" >>
                             /\ pc' = "idle"
                             /\ UNCHANGED << db, plan >>
               /\ UNCHANGED result
    /\ UNCHANGED << msg, originalData, dbAtSave, snapshot, batch, saves >>
    /\ UNCHANGED uiVars
    /\ UNCHANGED << backend, primaryKeys, externals >>
    /\ UNCHANGED beyondPreview

NextOlder ==
    \/ \E r \in DOMAIN grid, c \in Columns, v \in OlderInputs : olderFinishEditing(r, c, v)
    \/ \E r \in DOMAIN grid : olderDeleteRow(r)
    \/ olderSaveChanges
    \/ olderReceive
    \/ olderExecStatement

InitOlder ==
    PreviewOpened(OlderScenarios) /\ ManagerIdle /\ StoreIdle /\ ServiceIdle /\ CommandIdle

SpecOlder == InitOlder /\ [][NextOlder]_vars

StatementColumns(st) == DOMAIN st.where \cup DOMAIN st.set

\* C22: the row-position tag __rowid is never a column of a statement a save
\* sends to the backend.
C22_RowTagNeverSent ==
    \A i \in LogIndex : RowIdColumn \notin StatementColumns(log[i])

\* --------------------------------------------- properties of the profile store
Unusable(f) == f.kind \in {"notList", "corrupt"}

\* The write addConfig has started holds the profiles of the store.
AddWorked ==
    \A id \in (DOMAIN handed') \ (DOMAIN handed) :
        /\ id \in DOMAIN configs'
        /\ configs'[id] = handed'[id]
        /\ BagIn(SnapshotOf(configs', order'), writes')

\* C23: a store constructed on a file that cannot be parsed, or whose
\* configs field is not a list, is empty, and addConfig on it afterwards
\* stores the profile and starts the write of the store.
C23_UnusableFileGivesEmptyStore ==
    /\ Unusable(file) => configs = EmptyMap
    /\ [][/\ (loads' # loads /\ Unusable(file)) => configs' = EmptyMap
          /\ AddWorked]_vars

C23_Witness ==
    /\ Unusable(file)
    /\ DOMAIN handed # {}
    /\ DOMAIN configs = DOMAIN handed
    /\ \E w \in BagToSet(writes) : w = SnapshotOf(configs, order)

\* ----------------------------------------- further properties of the save cycle
IssuedFor(rowId, IsOp(_)) == \E i \in LogIndex : IsOp(log[i]) /\ log[i].ref = rowId

\* C24: a cycle that reports success has issued a statement for every
\* deleted-row marker, every modified existing row and every new row of the
\* batch.
C24_SuccessMeansEveryChangeIssued ==
    (saves > 0 /\ "saveSuccess" \in SeqToSet(outcome)) =>
        /\ \A r \in SeqToSet(batch.deletedRows) : IssuedFor(r, IsDeleteOp)
        /\ \A r \in (DOMAIN batch.modifiedData) \ SeqToSet(batch.newRows) :
               IssuedFor(r, IsUpdateOp)
        /\ \A r \in SeqToSet(batch.newRows) : IssuedFor(r, IsInsertOp)

\* Rows that were added in the grid and removed again before the save.
RemovedNewRows ==
    {r \in NewBase .. (NewBase + nextNew - 1) : r \notin SeqToSet(batch.newRows)}

\* C25: a row added in the grid, edited and removed again before the save
\* has no insert and no update issued for it.
C25_RemovedNewRowNotWritten ==
    saves > 0 => \A i \in LogIndex : log[i].ref \notin RemovedNewRows

\* ------------------------------------ further properties of command execution
\* The comma that separates two JSON objects in the text, 0 when the text is
\* not two objects.
ObjectsComma(text) ==
    LET ok(j) == /\ text[j] = ","
                 /\ ParseObject(Significant(SubSeq(text, 1, j - 1))) # SyntaxError
                 /\ ParseObject(Significant(SubSeq(text, j + 1, Len(text)))) # SyntaxError
    IN  IF \E j \in 1 .. Len(text) : ok(j)
           THEN CHOOSE j \in 1 .. Len(text) : ok(j)
           ELSE 0

\* C26: updateOne and updateMany written as db.collection.updateOne({filter},
\* {update}), with or without white space after the comma, pass the first
\* object as the filter and the second as the update document.
C26_UpdateFilterThenDocument ==
    (/\ cmdResult # "pending"
     /\ DocumentedForm(query)
     /\ Trim(query)[5] \in {"updateOne", "updateMany"}
     /\ ObjectsComma(ArgumentText(query)) # 0) =>
        LET text == ArgumentText(query)
            j == ObjectsComma(text)
        IN  /\ Len(native) = 1
            /\ native[1].args =
                   << ParseObject(Significant(SubSeq(text, 1, j - 1))),
                      ParseObject(Significant(SubSeq(text, j + 1, Len(text)))) >>

\* --------------------------------------- further properties of the manager
\* C27: whatever calls have been made, overlapping or failed, isConnected(id)
\* holds exactly when a handle is registered for id.
C27_ConnectedIffRegistered ==
    \A id \in ProfileIds : isConnected(id) <=> id \in DOMAIN connections

C27_Witness ==
    /\ isConnected("p1")
    /\ "p1" \in DOMAIN connections
    /\ Len(handles) >= 2
    /\ returned.closeError
    /\ calls # EmptyBag

\* The ensureConnected that returned last was called after the last write to
\* the stored profiles: it returned at once, or it read the profile it
\* connected with after that write.
CalledAfterLastWrite ==
    /\ returned.op = "ensureConnected"
    /\ returned.result = "true"
    /\ returned.wasConnected \/ handles[returned.h].ver = version

\* C28: once updateConfig(id, p) has returned, an executeQuery that follows
\* the next successful ensureConnected(id) runs on a handle opened with the
\* fields of p and never fails with connection-not-found.
C28_QueryRunsOnCurrentProfile ==
    [][(/\ version > 0
        /\ CalledAfterLastWrite
        /\ returned'.op = "executeQuery"
        /\ returned'.id = returned.id
        /\ HasConfig(returned.id)) =>
           /\ returned'.result # "connectionNotFound"
           /\ returned'.h \in DOMAIN handles
           /\ handles[returned'.h].args = DriverArgs(getConfig(returned'.id))
      ]_vars


\* A call of the service other than connect has returned in this step as `op`.
ServiceReturned(op) ==
    /\ svcOps' # svcOps
    /\ svcCall' = svcCall
    /\ svcLast'.op = op

\* C29: a transaction is registered for an id exactly from a beginTransaction
\* of that id that succeeded until a commit, a rollback or a disconnect of that
\* id has completed, and commitTransaction and rollbackTransaction fail with
\* the no-active-transaction error when none is registered.
C29_TransactionRegisteredWhileOpen ==
    [][LET id == svcLast'.id
           ended == \/ /\ \/ ServiceReturned("commitTransaction")
                          \/ ServiceReturned("rollbackTransaction")
                       /\ svcLast'.result = "void"
                    \/ /\ ServiceReturned("disconnect")
                       /\ id \in DOMAIN svcConnections
                       /\ id \notin DOMAIN svcConnections'
           begun == ServiceReturned("beginTransaction") /\ svcLast'.result = "void"
       IN  /\ begun => transactionConnections' = transactionConnections \cup {id}
           /\ ended => transactionConnections' = transactionConnections \ {id}
           /\ ~ (begun \/ ended) => transactionConnections' = transactionConnections
           /\ ( /\ \/ ServiceReturned("commitTransaction")
                   \/ ServiceReturned("rollbackTransaction")
                /\ id \notin transactionConnections )
                  => svcLast'.result = "noActiveTransaction"
      ]_vars


\* C30: once every pending write of the profile file has completed, the file
\* holds exactly the profiles of the in-memory store.  Stated for the step in
\* which the last pending write completes, from a state whose file already
\* holds the profiles of the store and more of them than any initial file
\* has, so that a write with the current profiles has succeeded before.
C30_FileMatchesStoreWhenWritesDone ==
    [][( /\ writes # EmptyBag
         /\ writes' = EmptyBag
         /\ file = ListFile(SnapshotOf(configs, order))
         /\ \A f \in InitialFiles : Len(file.configs) > Len(f.configs) )
            => file' = ListFile(SnapshotOf(configs', order'))
      ]_vars

=============================================================================
